---- MODULE Spec2Model ----
(***************************************************************************)
(* Curved Spaces: Dirichlet domain construction (half-edge mesh), face     *)
(* pairing, stay-in-domain reduction, honeycomb allocation and the         *)
(* LoadGeneratorFile / LoadGenerators / ShutDownModelData life cycle.      *)
(*                                                                         *)
(* Numbers.  The C code works in doubles.  The model works in exact        *)
(* rational arithmetic on the inputs it enumerates: a Matrix has integer   *)
(* entries, a Vector is a tuple of four integer numerators over one        *)
(* positive denominator, a scalar is a numerator over a denominator.  On   *)
(* these inputs every product, sum and cross product of the C code is      *)
(* exact, and a comparison against one of the C epsilons is carried out    *)
(* exactly (see ExceedsEps / BelowMinusEps).                               *)
(*                                                                         *)
(* Pointers.  Every GET_MEMORY block has an integer address; NULL is 0.    *)
(* The vertex / half-edge / face records live in maps from address to      *)
(* record, the NULL-terminated itsNext lists are sequences of addresses    *)
(* (head first).                                                           *)
(***************************************************************************)
EXTENDS Integers, Sequences, FiniteSets, TLC

NULL == 0

(***************************************************************************)
(* Small generic helpers                                                   *)
(***************************************************************************)
Abs(x) == IF x < 0 THEN -x ELSE x

Range(s) == { s[k] : k \in 1..Len(s) }

RemoveKey(f, k) == [ x \in (DOMAIN f) \ {k} |-> f[x] ]

EmptyMap == [ x \in {} |-> 0 ]

(***************************************************************************)
(* Epsilons of CurvedSpacesDirichlet.c, as denominators: 1e-4 = 1/10000.   *)
(***************************************************************************)
PLANARITY_EPSILON_DEN == 10000
HYPERPLANARITY_EPSILON_DEN == 10000
VERTEX_HALFSPACE_EPSILON_DEN == 1000000
MATE_MATRIX_EPSILON_DEN == 1000000
RESTORING_EPSILON_DEN == 100000000

\* x > 1/epsDen for the rational x = x.n / x.d  (x.d > 0).
\* n/d > 1/E  <=>  n > d/E  <=>  n > floor(d/E)  for an integer n.
ExceedsEps(x, epsDen) == x.n > (x.d \div epsDen)

\* x < -1/epsDen
BelowMinusEps(x, epsDen) == x.n < -(x.d \div epsDen)

(***************************************************************************)
(* Linear algebra kernel (CurvedSpacesMatrices.c)                          *)
(***************************************************************************)
Mat(r0, r1, r2, r3, p) == [ m |-> <<r0, r1, r2, r3>>, itsParity |-> p ]

MatrixIdentity ==
    Mat(<<1,0,0,0>>, <<0,1,0,0>>, <<0,0,1,0>>, <<0,0,0,1>>, "ImagePositive")

MatrixIsIdentity(M) == M.m = MatrixIdentity.m

MatrixAntipodalMap ==
    Mat(<<-1,0,0,0>>, <<0,-1,0,0>>, <<0,0,-1,0>>, <<0,0,0,-1>>, "ImagePositive")

ParityProduct(p, q) == IF p = q THEN "ImagePositive" ELSE "ImageNegative"

MatrixProduct(A, B) ==
    [ m |-> [ i \in 1..4 |-> [ j \in 1..4 |->
                A.m[i][1]*B.m[1][j] + A.m[i][2]*B.m[2][j]
              + A.m[i][3]*B.m[3][j] + A.m[i][4]*B.m[4][j] ] ],
      itsParity |-> ParityProduct(A.itsParity, B.itsParity) ]

\* O(4): the transpose.  Isom(E3): transposed 3x3 block, last row
\* -(t . block^T).  O(3,1): transpose with the mixed space/time entries negated.
MatrixGeometricInverse(M) ==
    IF M.m[4][4] < 1 THEN
        [ m |-> [ i \in 1..4 |-> [ j \in 1..4 |-> M.m[j][i] ] ],
          itsParity |-> M.itsParity ]
    ELSE IF M.m[4][4] = 1 THEN
        [ m |-> [ i \in 1..4 |-> [ j \in 1..4 |->
                    IF i < 4 /\ j < 4 THEN M.m[j][i]
                    ELSE IF i < 4 THEN 0
                    ELSE IF j = 4 THEN 1
                    ELSE -( M.m[4][1]*M.m[j][1] + M.m[4][2]*M.m[j][2]
                          + M.m[4][3]*M.m[j][3] ) ] ],
          itsParity |-> M.itsParity ]
    ELSE
        [ m |-> [ i \in 1..4 |-> [ j \in 1..4 |->
                    IF (i = 4) = (j = 4) THEN M.m[j][i] ELSE -M.m[j][i] ] ],
          itsParity |-> M.itsParity ]

\* |a_ij - b_ij| <= 1/epsDen on every entry (integer entries).
MatrixEquality(A, B, epsDen) ==
    \A i \in 1..4 : \A j \in 1..4 :
        ~ ExceedsEps([n |-> Abs(A.m[i][j] - B.m[i][j]), d |-> 1], epsDen)

Det3(a, b, c) ==
      a[1] * (b[2]*c[3] - b[3]*c[2])
    - a[2] * (b[1]*c[3] - b[3]*c[1])
    + a[3] * (b[1]*c[2] - b[2]*c[1])

Minor(a, b, c, k) ==
    LET cols == IF k = 1 THEN <<2,3,4>> ELSE IF k = 2 THEN <<1,3,4>>
                ELSE IF k = 3 THEN <<1,2,4>> ELSE <<1,2,3>>
        row(x) == <<x[cols[1]], x[cols[2]], x[cols[3]]>>
    IN  Det3(row(a), row(b), row(c))

\* The vector orthogonal to three given vectors: cofactor expansion of
\* det[e; a; b; c] along the first row.
VectorTernaryCrossProduct(a, b, c) ==
    [ v |-> <<   Minor(a.v, b.v, c.v, 1), -Minor(a.v, b.v, c.v, 2),
                 Minor(a.v, b.v, c.v, 3), -Minor(a.v, b.v, c.v, 4) >>,
      d |-> a.d * b.d * c.d ]

VectorDotProduct(a, b) ==
    [ n |-> a.v[1]*b.v[1] + a.v[2]*b.v[2] + a.v[3]*b.v[3] + a.v[4]*b.v[4],
      d |-> a.d * b.d ]

VectorNegate(a) == [ v |-> <<-a.v[1], -a.v[2], -a.v[3], -a.v[4]>>, d |-> a.d ]

\* Squared length of a vector under the metric of the space type; the
\* normalization fails when it is not positive.
MetricLengthSquared(a, aSpaceType) ==
    IF aSpaceType = "SpaceSpherical"
        THEN a.v[1]*a.v[1] + a.v[2]*a.v[2] + a.v[3]*a.v[3] + a.v[4]*a.v[4]
    ELSE IF aSpaceType = "SpaceFlat"
        THEN a.v[4]*a.v[4]
    ELSE a.v[4]*a.v[4] - a.v[1]*a.v[1] - a.v[2]*a.v[2] - a.v[3]*a.v[3]

\* Vertices are kept projectively (as rays), so a successful normalization
\* keeps the ray; only its failure is observable in the model.
VectorNormalizeFails(a, aSpaceType) == MetricLengthSquared(a, aSpaceType) <= 0

(***************************************************************************)
(* The allocator.  GET_MEMORY call number failAt fails (0: none fails);    *)
(* with persist every later call fails too.  GET_MEMORY returns the lowest *)
(* address that is not live; FREE_MEMORY of an address that is not live    *)
(* (a double free) is recorded in doubleFree.                              *)
(***************************************************************************)
NewMemory(live, failAt, persist) ==
    [ calls |-> 0, failAt |-> failAt, persist |-> persist,
      live |-> live, doubleFree |-> FALSE ]

AllocFails(mem) ==
    /\ mem.failAt # 0
    /\ \/ mem.calls + 1 = mem.failAt
       \/ mem.persist /\ mem.calls + 1 > mem.failAt

LowestFreeAddress(live) ==
    CHOOSE a \in 1..(Cardinality(live) + 1) :
        a \notin live /\ \A b \in 1..(a - 1) : b \in live

\* The address GET_MEMORY returns (NULL on failure) and the allocator after.
GetMemoryAddr(mem) == IF AllocFails(mem) THEN NULL ELSE LowestFreeAddress(mem.live)

GetMemory(mem) ==
    IF AllocFails(mem)
    THEN [ mem EXCEPT !.calls = @ + 1 ]
    ELSE [ mem EXCEPT !.calls = @ + 1, !.live = @ \cup {LowestFreeAddress(mem.live)} ]

FreeMemory(mem, addr) ==
    IF addr \in mem.live
    THEN [ mem EXCEPT !.live = @ \ {addr} ]
    ELSE [ mem EXCEPT !.doubleFree = TRUE ]

\* FREE_MEMORY of every address of a list, first to last: a block is freed
\* twice when it was not live before or is on the list more than once.
FreeAll(mem, addrs) ==
    [ mem EXCEPT
        !.live = @ \ { addrs[k] : k \in 1..Len(addrs) },
        !.doubleFree =
            \/ @
            \/ \E k \in 1..Len(addrs) :
                  \/ addrs[k] \notin mem.live
                  \/ \E j \in 1..(k - 1) : addrs[j] = addrs[k] ]

\* n consecutive GET_MEMORY calls, stopping at the first failure.
\* addrs: the blocks obtained, in allocation order.
RECURSIVE GetMemoryMany(_, _, _)
GetMemoryMany(mem, n, addrs) ==
    IF n = 0 THEN [ mem |-> mem, addrs |-> addrs, ok |-> TRUE ]
    ELSE IF AllocFails(mem) THEN [ mem |-> GetMemory(mem), addrs |-> addrs, ok |-> FALSE ]
    ELSE GetMemoryMany(GetMemory(mem), n - 1, Append(addrs, GetMemoryAddr(mem)))

Reverse(s) == [ k \in 1..Len(s) |-> s[Len(s) + 1 - k] ]

(***************************************************************************)
(* The half-edge polyhedron (struct HEPolyhedron and its elements)         *)
(***************************************************************************)
NoError == "NULL"

NO_COLOR_INDEX == -1

NoVector == [ v |-> <<0,0,0,0>>, d |-> 1 ]

\* Freshly allocated elements: the C fields are uninitialized.
NewHEVertex ==
    [ itsRawPosition |-> NoVector, itsOutboundHalfEdge |-> NULL,
      itsHalfspaceStatus |-> "Undefined" ]

NewHEHalfEdge ==
    [ itsTip |-> NULL, itsMate |-> NULL, itsCycle |-> NULL, itsFace |-> NULL,
      itsDeletionFlag |-> FALSE ]

NewHEFace ==
    [ itsHalfEdge |-> NULL, itsHalfspace |-> NoVector, itsMatrix |-> MatrixIdentity,
      itsColorIndex |-> NO_COLOR_INDEX, itsDeletionFlag |-> FALSE ]

\* *aDirichletDomain == NULL
NullDomain ==
    [ ptr |-> NULL, itsVertexList |-> <<>>, itsHalfEdgeList |-> <<>>,
      itsFaceList |-> <<>>, V |-> EmptyMap, H |-> EmptyMap, F |-> EmptyMap,
      itsSpaceType |-> "SpaceNone", theCount |-> 0 ]

\* A header fresh from GET_MEMORY with its three lists set to NULL.
NewDomain(addr) == [ NullDomain EXCEPT !.ptr = addr ]

\* Put freshly allocated elements on a list: each goes to the head.
PushAll(list, addrs) == Reverse(addrs) \o list

AddRecords(map, addrs, rec) ==
    [ a \in (DOMAIN map) \cup Range(addrs) |->
        IF a \in Range(addrs) THEN rec ELSE map[a] ]

FreeDirichletDomainHeaderOnly(s) ==
    IF s.dd.ptr = NULL THEN s
    ELSE [ s EXCEPT !.mem = FreeMemory(s.mem, s.dd.ptr), !.dd = NullDomain ]

FreeDirichletDomain(s) ==
    IF s.dd.ptr = NULL THEN s
    ELSE [ s EXCEPT
            !.mem = FreeMemory(
                        FreeAll(FreeAll(FreeAll(s.mem, s.dd.itsVertexList),
                                        s.dd.itsHalfEdgeList),
                                s.dd.itsFaceList),
                        s.dd.ptr),
            !.dd = NullDomain ]

MakeHalfspaceInequalityUnadjusted(aMatrix) ==
    LET r == aMatrix.m[4]
    IN  [ v |-> <<r[1], r[2], r[3], r[4] - 1>>, d |-> 1 ]

MakeHalfspaceInequality(aMatrix) ==
    LET r == aMatrix.m[4]
    IN  IF r[4] < 1 THEN [ v |-> <<r[1], r[2], r[3], r[4] - 1>>, d |-> 1 ]
        ELSE IF r[4] = 1
            \* v[3] = -0.5 * (x^2 + y^2 + z^2 + 0^2), in halves
            THEN [ v |-> <<2*r[1], 2*r[2], 2*r[3],
                           -(r[1]*r[1] + r[2]*r[2] + r[3]*r[3])>>, d |-> 2 ]
        ELSE [ v |-> <<r[1], r[2], r[3], -(r[4] - 1)>>, d |-> 1 ]

(***************************************************************************)
(* Seeds: MakeBanana and MakeLens.  s = [dd, mem, err, hang]: the output   *)
(* location *aDirichletDomain, the allocator, the ErrorText returned and   *)
(* whether a loop of the C code failed to terminate.                       *)
(***************************************************************************)
MakeBanana(aMatrixA, aMatrixB, aMatrixC, s) ==
    IF s.dd.ptr # NULL
    THEN [ s EXCEPT !.err = "MakeBanana() received a non-NULL output location." ]
    ELSE
    LET theOutOfMemoryMessage == "Out of memory in MakeBanana()."
        theMatrices   == <<aMatrixA, aMatrixB, aMatrixC>>
        theHalfspaces == [ i \in 1..3 |-> MakeHalfspaceInequality(theMatrices[i]) ]
        hdr  == GetMemoryAddr(s.mem)
        m0   == GetMemory(s.mem)
        rv   == GetMemoryMany(m0, 2, <<>>)
        rh   == GetMemoryMany(rv.mem, 6, <<>>)
        rf   == GetMemoryMany(rh.mem, 3, <<>>)
        \* theHalfEdges[i][j], i in 0..2, j in 0..1
        HE(i, j) == rh.addrs[2*i + j + 1]
        d0   == NewDomain(hdr)
        d1   == [ d0 EXCEPT !.itsVertexList = PushAll(@, rv.addrs),
                            !.V = AddRecords(@, rv.addrs, NewHEVertex) ]
        d2   == [ d1 EXCEPT !.itsHalfEdgeList = PushAll(@, rh.addrs),
                            !.H = AddRecords(@, rh.addrs, NewHEHalfEdge) ]
        d3   == [ d2 EXCEPT !.itsFaceList = PushAll(@, rf.addrs),
                            !.F = AddRecords(@, rf.addrs, NewHEFace) ]
        thePosition0 == VectorTernaryCrossProduct(theHalfspaces[1], theHalfspaces[2],
                                                  theHalfspaces[3])
        Vfin == [ a \in DOMAIN d3.V |->
                    LET j == IF a = rv.addrs[1] THEN 0 ELSE 1
                    IN  [ d3.V[a] EXCEPT
                            !.itsRawPosition = IF j = 0 THEN thePosition0
                                               ELSE VectorNegate(thePosition0),
                            !.itsOutboundHalfEdge = HE(0, j) ] ]
        Hfin == [ a \in DOMAIN d3.H |->
                    LET k == CHOOSE k \in 1..6 : rh.addrs[k] = a
                        i == (k - 1) \div 2
                        j == (k - 1) % 2
                    IN  [ d3.H[a] EXCEPT
                            !.itsTip   = rv.addrs[(1 - j) + 1],
                            !.itsMate  = HE((i + 1 + j) % 3, 1 - j),
                            !.itsCycle = HE(i, 1 - j),
                            !.itsFace  = rf.addrs[i + 1] ] ]
        Ffin == [ a \in DOMAIN d3.F |->
                    LET i == (CHOOSE k \in 1..3 : rf.addrs[k] = a) - 1
                    IN  [ d3.F[a] EXCEPT
                            !.itsHalfEdge  = HE(i, 0),
                            !.itsMatrix    = theMatrices[i + 1],
                            !.itsHalfspace = theHalfspaces[i + 1] ] ]
    IN  IF hdr = NULL
            THEN [ s EXCEPT !.mem = m0, !.err = theOutOfMemoryMessage ]
        ELSE IF ~ rv.ok
            THEN FreeDirichletDomain([ s EXCEPT !.dd = d1, !.mem = rv.mem,
                                                !.err = theOutOfMemoryMessage ])
        ELSE IF ~ rh.ok
            THEN FreeDirichletDomain([ s EXCEPT !.dd = d2, !.mem = rh.mem,
                                                !.err = theOutOfMemoryMessage ])
        ELSE IF ~ rf.ok
            THEN FreeDirichletDomain([ s EXCEPT !.dd = d3, !.mem = rf.mem,
                                                !.err = theOutOfMemoryMessage ])
        ELSE [ s EXCEPT !.mem = rf.mem,
                        !.dd = [ d3 EXCEPT !.V = Vfin, !.H = Hfin, !.F = Ffin ] ]

\* n = floor(2 pi / |atan2(m32, m33)| + 0.5) on integer entries:
\* atan2(+-1, 0) = +-pi/2 gives 4, atan2(0, -1) = pi gives 2; for any other
\* entries the model has no exact angle and reports 0 (order not deduced).
LensOrder(aMatrixA) ==
    LET y == aMatrixA.m[4][3]
        x == aMatrixA.m[4][4]
    IN  IF x = 0 /\ Abs(y) = 1 THEN 4
        ELSE IF y = 0 /\ x = -1 THEN 2
        ELSE 0

\* cos(i * 2 pi / 4), sin(i * 2 pi / 4)
LensVertexPosition(i) ==
    [ v |-> IF i = 0 THEN <<1,0,0,0>> ELSE IF i = 1 THEN <<0,1,0,0>>
            ELSE IF i = 2 THEN <<-1,0,0,0>> ELSE <<0,-1,0,0>>,
      d |-> 1 ]

MakeLens(aMatrixA, aMatrixB, s) ==
    IF s.dd.ptr # NULL
    THEN [ s EXCEPT !.err = "MakeLens() received a non-NULL output location." ]
    ELSE
    LET theOutOfMemoryMessage == "Out of memory in MakeLens()."
        a == aMatrixA.m
        n == IF a[4][4] = 1 THEN 4 ELSE LensOrder(aMatrixA)
        hdr  == GetMemoryAddr(s.mem)
        m0   == GetMemory(s.mem)
        \* the scratch array theVertices, then the n vertices
        tv   == GetMemoryAddr(m0)
        m1   == GetMemory(m0)
        rv   == GetMemoryMany(m1, n, <<>>)
        \* the scratch array theHalfEdges, then the 2n half edges
        th   == GetMemoryAddr(rv.mem)
        m2   == GetMemory(rv.mem)
        rh   == GetMemoryMany(m2, 2*n, <<>>)
        rf   == GetMemoryMany(rh.mem, 2, <<>>)
        HE(i, j) == rh.addrs[2*i + j + 1]
        d0   == NewDomain(hdr)
        d1   == [ d0 EXCEPT !.itsVertexList = PushAll(@, rv.addrs),
                            !.V = AddRecords(@, rv.addrs, NewHEVertex) ]
        d2   == [ d1 EXCEPT !.itsHalfEdgeList = PushAll(@, rh.addrs),
                            !.H = AddRecords(@, rh.addrs, NewHEHalfEdge) ]
        d3   == [ d2 EXCEPT !.itsFaceList = PushAll(@, rf.addrs),
                            !.F = AddRecords(@, rf.addrs, NewHEFace) ]
        Vfin == [ v \in DOMAIN d3.V |->
                    LET i == (CHOOSE k \in 1..n : rv.addrs[k] = v) - 1
                    IN  [ d3.V[v] EXCEPT
                            !.itsRawPosition = LensVertexPosition(i),
                            !.itsOutboundHalfEdge = HE(i, 0) ] ]
        Hfin == [ h \in DOMAIN d3.H |->
                    LET k == CHOOSE k \in 1..(2*n) : rh.addrs[k] = h
                        i == (k - 1) \div 2
                        j == (k - 1) % 2
                    IN  [ d3.H[h] EXCEPT
                            !.itsTip   = IF j = 0 THEN rv.addrs[((i + 1) % n) + 1]
                                         ELSE rv.addrs[i + 1],
                            !.itsMate  = HE(i, 1 - j),
                            !.itsCycle = IF j = 0 THEN HE((i + 1) % n, 0)
                                         ELSE HE((i + n - 1) % n, 1),
                            !.itsFace  = rf.addrs[j + 1] ] ]
        Ffin == [ f \in DOMAIN d3.F |->
                    LET j == (CHOOSE k \in 1..2 : rf.addrs[k] = f) - 1
                    IN  [ d3.F[f] EXCEPT
                            !.itsHalfEdge  = HE(0, j),
                            !.itsHalfspace = MakeHalfspaceInequality(
                                                IF j = 0 THEN aMatrixA ELSE aMatrixB),
                            !.itsMatrix    = IF j = 0 THEN aMatrixA ELSE aMatrixB ] ]
        \* CleanUpMakeLens: FreeDirichletDomain on error, then the two
        \* FREE_MEMORY_SAFELY calls on the scratch arrays that were obtained.
        CleanUp(dom, mem, scratch, err) ==
            LET t == IF err # NoError
                     THEN FreeDirichletDomain([ s EXCEPT !.dd = dom, !.mem = mem,
                                                         !.err = err ])
                     ELSE [ s EXCEPT !.dd = dom, !.mem = mem ]
            IN  [ t EXCEPT !.mem = FreeAll(@, scratch) ]
    IN  IF a[4][4] < 1 /\
           ( a[1][3] # 0 \/ a[1][4] # 0 \/ a[2][3] # 0 \/ a[2][4] # 0
          \/ a[3][1] # 0 \/ a[3][2] # 0 \/ a[4][1] # 0 \/ a[4][2] # 0 )
            THEN [ s EXCEPT !.err = "MakeLens() confused by potential lens space." ]
        ELSE IF a[4][4] < 1 /\ n = 0
            THEN [ s EXCEPT !.err = "MakeLens() couldn't deduce order of potential lens space." ]
        ELSE IF a[4][4] < 1 /\ n < 3
            THEN [ s EXCEPT !.err = "MakeLens() expected a lens space of order at least 3." ]
        ELSE IF a[4][4] > 1
            THEN [ s EXCEPT !.err = "MakeLens() can't handle hyperbolic slab spaces." ]
        ELSE IF hdr = NULL
            THEN [ s EXCEPT !.mem = m0, !.err = theOutOfMemoryMessage ]
        ELSE IF tv = NULL
            THEN CleanUp(d0, m1, <<>>, theOutOfMemoryMessage)
        ELSE IF ~ rv.ok
            THEN CleanUp(d1, rv.mem, <<tv>>, theOutOfMemoryMessage)
        ELSE IF th = NULL
            THEN CleanUp(d1, m2, <<tv>>, theOutOfMemoryMessage)
        ELSE IF ~ rh.ok
            THEN CleanUp(d2, rh.mem, <<th, tv>>, theOutOfMemoryMessage)
        ELSE IF ~ rf.ok
            THEN CleanUp(d3, rf.mem, <<th, tv>>, theOutOfMemoryMessage)
        ELSE CleanUp([ d3 EXCEPT !.V = Vfin, !.H = Hfin, !.F = Ffin ],
                     rf.mem, <<th, tv>>, NoError)

(***************************************************************************)
(* IntersectWithHalfspace                                                  *)
(***************************************************************************)
\* The half edges met by following itsCycle from aStart until it comes back
\* to aStart (do ... while), or until more half edges than exist were met.
RECURSIVE CycleFrom(_, _, _)
CycleFrom(H, aStart, acc) ==
    LET cur == IF acc = <<>> THEN aStart ELSE H[acc[Len(acc)]].itsCycle
    IN  IF acc # <<>> /\ cur = aStart THEN acc
        ELSE IF Len(acc) > Cardinality(DOMAIN H) \/ cur \notin DOMAIN H THEN acc
        ELSE CycleFrom(H, aStart, Append(acc, cur))

CycleCloses(H, aStart) ==
    LET c == CycleFrom(H, aStart, <<>>)
    IN  /\ c # <<>>
        /\ Len(c) <= Cardinality(DOMAIN H)
        /\ H[c[Len(c)]].itsCycle = aStart

\* The last element of a sequence that satisfies a test given as a set.
LastIn(seq, S) ==
    IF \E k \in 1..Len(seq) : seq[k] \in S
    THEN seq[CHOOSE k \in 1..Len(seq) :
                seq[k] \in S /\ \A l \in (k+1)..Len(seq) : seq[l] \notin S]
    ELSE NULL

VertexStatus(aHalfspace, aPosition) ==
    LET theDotProduct == VectorDotProduct(aHalfspace, aPosition)
    IN  IF BelowMinusEps(theDotProduct, VERTEX_HALFSPACE_EPSILON_DEN)
            THEN "VertexInsideHalfspace"
        ELSE IF ExceedsEps(theDotProduct, VERTEX_HALFSPACE_EPSILON_DEN)
            THEN "VertexOutsideHalfspace"
        ELSE "VertexOnBoundary"

theMemoryError == "Memory request failed in IntersectWithHalfspace()."

\* One pass of the loop that cuts the edges: half edge number k of the list
\* as it was when the loop started (new half edges go to the head of the
\* list, behind the loop pointer).
SplitOneEdge(s, theHalfEdge1, theHalfspace) ==
    LET dd == s.dd
        theHalfEdge2 == dd.H[theHalfEdge1].itsMate
        theVertex1   == dd.H[theHalfEdge1].itsTip
        theVertex2   == dd.H[theHalfEdge2].itsTip
        theNewVertex == GetMemoryAddr(s.mem)
        m1 == GetMemory(s.mem)
        theHalfEdge1a == GetMemoryAddr(m1)
        m2 == GetMemory(m1)
        theHalfEdge2a == GetMemoryAddr(m2)
        m3 == GetMemory(m2)
        thePosition ==
            VectorTernaryCrossProduct(dd.F[dd.H[theHalfEdge1].itsFace].itsHalfspace,
                                      dd.F[dd.H[theHalfEdge2].itsFace].itsHalfspace,
                                      theHalfspace)
        ddV == [ dd EXCEPT
                  !.itsVertexList = <<theNewVertex>> \o @,
                  !.V = (theNewVertex :> [ NewHEVertex EXCEPT
                            !.itsRawPosition = thePosition,
                            !.itsHalfspaceStatus = "VertexOnBoundary" ]) @@ @ ]
        dd1a == [ ddV EXCEPT
                  !.itsHalfEdgeList = <<theHalfEdge1a>> \o @,
                  !.H = (theHalfEdge1a :> NewHEHalfEdge) @@ @ ]
        dd2a == [ dd1a EXCEPT
                  !.itsHalfEdgeList = <<theHalfEdge2a>> \o @,
                  !.H = (theHalfEdge2a :> NewHEHalfEdge) @@ @ ]
        H0 == dd2a.H
        \* theHalfEdge1b = theHalfEdge1, theHalfEdge2b = theHalfEdge2
        H1 == [ H0 EXCEPT
                  ![theHalfEdge1a] = [ @ EXCEPT !.itsTip   = H0[theHalfEdge1].itsTip,
                                                !.itsMate  = theHalfEdge2,
                                                !.itsCycle = H0[theHalfEdge1].itsCycle,
                                                !.itsFace  = H0[theHalfEdge1].itsFace ],
                  ![theHalfEdge2a] = [ @ EXCEPT !.itsTip   = H0[theHalfEdge2].itsTip,
                                                !.itsMate  = theHalfEdge1,
                                                !.itsCycle = H0[theHalfEdge2].itsCycle,
                                                !.itsFace  = H0[theHalfEdge2].itsFace ],
                  ![theHalfEdge1]  = [ @ EXCEPT !.itsTip   = theNewVertex,
                                                !.itsMate  = theHalfEdge2a,
                                                !.itsCycle = theHalfEdge1a ],
                  ![theHalfEdge2]  = [ @ EXCEPT !.itsTip   = theNewVertex,
                                                !.itsMate  = theHalfEdge1a,
                                                !.itsCycle = theHalfEdge2a ] ]
        ddFin == [ dd2a EXCEPT
                  !.H = H1,
                  !.V[theNewVertex].itsOutboundHalfEdge = theHalfEdge1a ]
    IN  IF ~ ( dd.V[theVertex1].itsHalfspaceStatus = "VertexInsideHalfspace"
            /\ dd.V[theVertex2].itsHalfspaceStatus = "VertexOutsideHalfspace" )
            THEN s
        ELSE IF theNewVertex = NULL
            THEN [ s EXCEPT !.mem = m1, !.err = theMemoryError ]
        ELSE IF theHalfEdge1a = NULL
            THEN [ s EXCEPT !.dd = ddV, !.mem = m2, !.err = theMemoryError ]
        ELSE IF theHalfEdge2a = NULL
            THEN [ s EXCEPT !.dd = dd1a, !.mem = m3, !.err = theMemoryError ]
        ELSE [ s EXCEPT !.dd = ddFin, !.mem = m3 ]

RECURSIVE SplitEdges(_, _, _, _)
SplitEdges(s, theList, k, theHalfspace) ==
    IF k > Len(theList) \/ s.err # NoError THEN s
    ELSE SplitEdges(SplitOneEdge(s, theList[k], theHalfspace), theList, k + 1,
                    theHalfspace)

\* One pass of the loop that cuts the faces.
SplitOneFace(s, theFace) ==
    LET dd == s.dd
        theCycle == CycleFrom(dd.H, dd.F[theFace].itsHalfEdge, <<>>)
        TipStatus(h) == dd.V[dd.H[h].itsTip].itsHalfspaceStatus
        NextStatus(h) == dd.V[dd.H[dd.H[h].itsCycle].itsTip].itsHalfspaceStatus
        theGoingInEdge ==
            LastIn(theCycle, { h \in Range(theCycle) :
                TipStatus(h) = "VertexOnBoundary"
                /\ NextStatus(h) = "VertexInsideHalfspace" })
        theGoingOutEdge ==
            LastIn(theCycle, { h \in Range(theCycle) :
                TipStatus(h) = "VertexOnBoundary"
                /\ NextStatus(h) = "VertexOutsideHalfspace" })
        theInnerHalfEdge == GetMemoryAddr(s.mem)
        m1 == GetMemory(s.mem)
        theOuterHalfEdge == GetMemoryAddr(m1)
        m2 == GetMemory(m1)
        theOuterFace == GetMemoryAddr(m2)
        m3 == GetMemory(m2)
        ddI == [ dd EXCEPT
                  !.itsHalfEdgeList = <<theInnerHalfEdge>> \o @,
                  !.H = (theInnerHalfEdge :> NewHEHalfEdge) @@ @ ]
        ddO == [ ddI EXCEPT
                  !.itsHalfEdgeList = <<theOuterHalfEdge>> \o @,
                  !.H = (theOuterHalfEdge :> NewHEHalfEdge) @@ @ ]
        ddF == [ ddO EXCEPT
                  !.itsFaceList = <<theOuterFace>> \o @,
                  !.F = (theOuterFace :> NewHEFace) @@ @ ]
        H0 == ddF.H
        H1 == [ H0 EXCEPT
                  ![theInnerHalfEdge] = [ @ EXCEPT
                        !.itsTip   = H0[theGoingInEdge].itsTip,
                        !.itsMate  = theOuterHalfEdge,
                        !.itsCycle = H0[theGoingInEdge].itsCycle,
                        !.itsFace  = theFace ],
                  ![theOuterHalfEdge] = [ @ EXCEPT
                        !.itsTip   = H0[theGoingOutEdge].itsTip,
                        !.itsMate  = theInnerHalfEdge,
                        !.itsCycle = H0[theGoingOutEdge].itsCycle ],
                  ![theGoingOutEdge].itsCycle = theInnerHalfEdge,
                  ![theGoingInEdge].itsCycle  = theOuterHalfEdge ]
        theOuterCycle == CycleFrom(H1, theOuterHalfEdge, <<>>)
        H2 == [ h \in DOMAIN H1 |->
                  IF h \in Range(theOuterCycle)
                  THEN [ H1[h] EXCEPT !.itsFace = theOuterFace ] ELSE H1[h] ]
        ddFin == [ ddF EXCEPT
                  !.H = H2,
                  !.F[theFace].itsHalfEdge = theInnerHalfEdge,
                  !.F[theOuterFace].itsHalfEdge = theOuterHalfEdge ]
    IN  IF ~ CycleCloses(dd.H, dd.F[theFace].itsHalfEdge)
            THEN [ s EXCEPT !.hang = TRUE ]
        ELSE IF theGoingOutEdge = NULL \/ theGoingInEdge = NULL
            THEN s
        ELSE IF theInnerHalfEdge = NULL
            THEN [ s EXCEPT !.mem = m1, !.err = theMemoryError ]
        ELSE IF theOuterHalfEdge = NULL
            THEN [ s EXCEPT !.dd = ddI, !.mem = m2, !.err = theMemoryError ]
        ELSE IF theOuterFace = NULL
            THEN [ s EXCEPT !.dd = ddO, !.mem = m3, !.err = theMemoryError ]
        ELSE IF ~ CycleCloses(H1, theOuterHalfEdge)
            THEN [ s EXCEPT !.dd = ddF, !.mem = m3, !.hang = TRUE ]
        ELSE [ s EXCEPT !.dd = ddFin, !.mem = m3 ]

RECURSIVE SplitFaces(_, _, _)
SplitFaces(s, theList, k) ==
    IF k > Len(theList) \/ s.err # NoError \/ s.hang THEN s
    ELSE SplitFaces(SplitOneFace(s, theList[k]), theList, k + 1)

SurvivingAroundFirst(H, h, fuel) == h

\* while (h->itsDeletionFlag) h = h->itsMate->itsCycle;   NULL: never ends.
RECURSIVE SurvivingAround(_, _, _)
SurvivingAround(H, h, fuel) ==
    IF h \notin DOMAIN H \/ fuel = 0 THEN NULL
    ELSE IF ~ H[h].itsDeletionFlag THEN h
    ELSE IF H[h].itsMate \notin DOMAIN H THEN NULL
    ELSE SurvivingAround(H, H[H[h].itsMate].itsCycle, fuel - 1)

SelectSeq2(seq, S) == SelectSeq(seq, LAMBDA x : x \in S)

theOutboundHalfEdgeUnrepaired(H, h, fuel) == h

\* while (theVertex->itsOutboundHalfEdge->itsDeletionFlag) ...
theSurvivingOutboundHalfEdge(H, h, fuel) == SurvivingAround(H, h, fuel)

\* The vertices the final loop of IntersectWithHalfspace removes and frees.
VerticesToDeleteNone(dd) == {}

VerticesToDelete(dd) ==
    { v \in DOMAIN dd.V : dd.V[v].itsHalfspaceStatus = "VertexOutsideHalfspace" }

\* The part of IntersectWithHalfspace after the two cutting loops: the new
\* face, the deletion marks, the outbound-edge repair, the installation of
\* the new face and the deletion of what lies outside.
FinishCut(s, aMatrix, theHalfspace) ==
    LET dd == s.dd
        theNewFace == GetMemoryAddr(s.mem)
        m1 == GetMemory(s.mem)
        flist == <<theNewFace>> \o dd.itsFaceList
        F0 == (theNewFace :> NewHEFace) @@ dd.F
        Outside(v) == dd.V[v].itsHalfspaceStatus = "VertexOutsideHalfspace"
        \* deletion marks
        H1 == [ h \in DOMAIN dd.H |->
                  [ dd.H[h] EXCEPT !.itsDeletionFlag =
                        Outside(dd.H[h].itsTip)
                     \/ Outside(dd.H[dd.H[h].itsMate].itsTip) ] ]
        F1 == [ f \in DOMAIN F0 |->
                  [ F0[f] EXCEPT !.itsDeletionFlag =
                        \E h \in DOMAIN H1 :
                            H1[h].itsDeletionFlag /\ H1[h].itsFace = f ] ]
        \* surviving vertices see a surviving half edge
        fuel == Cardinality(DOMAIN H1) + 1
        V1 == [ v \in DOMAIN dd.V |->
                  IF Outside(v) THEN dd.V[v]
                  ELSE [ dd.V[v] EXCEPT !.itsOutboundHalfEdge =
                            theSurvivingOutboundHalfEdge(H1, @, fuel) ] ]
        theRepairHangs ==
            \E v \in DOMAIN dd.V : ~ Outside(v) /\ V1[v].itsOutboundHalfEdge = NULL
        \* install the new face
        OnNewFace(h) == ~ H1[h].itsDeletionFlag /\ F1[H1[h].itsFace].itsDeletionFlag
        H2 == [ h \in DOMAIN H1 |->
                  IF OnNewFace(h)
                  THEN [ H1[h] EXCEPT !.itsFace  = theNewFace,
                                      !.itsCycle = SurvivingAround(H1, @, fuel) ]
                  ELSE H1[h] ]
        theInstallHangs ==
            \E h \in DOMAIN H1 : OnNewFace(h) /\ H2[h].itsCycle = NULL
        F2 == [ F1 EXCEPT ![theNewFace] = [ @ EXCEPT
                  !.itsHalfEdge  = LastIn(dd.itsHalfEdgeList,
                                          { h \in DOMAIN H1 : OnNewFace(h) }),
                  !.itsHalfspace = theHalfspace,
                  !.itsMatrix    = aMatrix ] ]
        \* delete
        deadV == VerticesToDelete(dd)
        deadH == { h \in DOMAIN H2 : H2[h].itsDeletionFlag }
        deadF == { f \in DOMAIN F2 : F2[f].itsDeletionFlag }
        ddFin == [ dd EXCEPT
                    !.itsVertexList   = SelectSeq2(@, (DOMAIN V1) \ deadV),
                    !.itsHalfEdgeList = SelectSeq2(@, (DOMAIN H2) \ deadH),
                    !.itsFaceList     = SelectSeq2(flist, (DOMAIN F2) \ deadF),
                    !.V = [ v \in (DOMAIN V1) \ deadV |-> V1[v] ],
                    !.H = [ h \in (DOMAIN H2) \ deadH |-> H2[h] ],
                    !.F = [ f \in (DOMAIN F2) \ deadF |-> F2[f] ] ]
        memFin == FreeAll(FreeAll(FreeAll(m1,
                        SelectSeq2(dd.itsVertexList, deadV)),
                        SelectSeq2(dd.itsHalfEdgeList, deadH)),
                        SelectSeq2(flist, deadF))
    IN  IF theNewFace = NULL
            THEN [ s EXCEPT !.mem = m1, !.err = theMemoryError ]
        ELSE IF theRepairHangs \/ theInstallHangs
            THEN [ s EXCEPT !.mem = m1, !.hang = TRUE,
                            !.dd = [ dd EXCEPT !.itsFaceList = flist, !.F = F0 ] ]
        ELSE [ s EXCEPT !.dd = ddFin, !.mem = memFin ]

\* The first loop: every vertex is classified against the halfspace.
MarkVertices(s, theHalfspace) ==
    [ s EXCEPT !.dd.V =
        [ v \in DOMAIN s.dd.V |->
            [ s.dd.V[v] EXCEPT !.itsHalfspaceStatus =
                VertexStatus(theHalfspace, s.dd.V[v].itsRawPosition) ] ] ]

\* s: after the loop over the faces
CutAfterFaces(s, aMatrix, theHalfspace) ==
    IF s.err # NoError \/ s.hang THEN s
    ELSE FinishCut(s, aMatrix, theHalfspace)

\* s: after the loop over the half edges
CutAfterEdges(s, aMatrix, theHalfspace) ==
    IF s.err # NoError THEN s
    ELSE CutAfterFaces(SplitFaces(s, s.dd.itsFaceList, 1), aMatrix, theHalfspace)

CutMarkedAlways(s, aMatrix, theHalfspace) ==
    CutAfterEdges(SplitEdges(s, s.dd.itsHalfEdgeList, 1, theHalfspace),
                  aMatrix, theHalfspace)

\* s: after the vertices were classified
CutMarked(s, aMatrix, theHalfspace) ==
    LET theCutIsNontrivial ==
            \E v \in DOMAIN s.dd.V :
                s.dd.V[v].itsHalfspaceStatus = "VertexOutsideHalfspace"
    IN  IF ~ theCutIsNontrivial THEN s
        ELSE CutAfterEdges(SplitEdges(s, s.dd.itsHalfEdgeList, 1, theHalfspace),
                           aMatrix, theHalfspace)

IntersectWithHalfspaceOfInverse(s, aMatrix) ==
    IF MatrixIsIdentity(aMatrix) THEN s
    ELSE CutMarked(MarkVertices(s, MakeHalfspaceInequality(aMatrix)),
                   MatrixGeometricInverse(aMatrix),
                   MakeHalfspaceInequality(aMatrix))

\* s: after the loop over the half edges; the loop over the faces
SplitFacesOf(s) ==
    IF s.err # NoError THEN s ELSE SplitFaces(s, s.dd.itsFaceList, 1)

\* The polyhedron as the two cutting loops of a nontrivial cut leave it,
\* before the new face is made and the outside is deleted.
theSplitPolyhedron(s, aMatrix) ==
    SplitFacesOf(SplitEdges(MarkVertices(s, MakeHalfspaceInequality(aMatrix)),
                            s.dd.itsHalfEdgeList, 1,
                            MakeHalfspaceInequality(aMatrix))).dd

IntersectWithHalfspace(s, aMatrix) ==
    IF MatrixIsIdentity(aMatrix) THEN s
    ELSE CutMarked(MarkVertices(s, MakeHalfspaceInequality(aMatrix)),
                   aMatrix, MakeHalfspaceInequality(aMatrix))

(***************************************************************************)
(* AssignFaceColors                                                        *)
(***************************************************************************)
\* The first face after position k of the list whose matrix equals the
\* geometric inverse of the matrix of face number k; NULL if there is none.
FindNoMate(dd, F, k) == NULL

FindMate(dd, F, k) ==
    LET theList == dd.itsFaceList
        theInverseMatrix == MatrixGeometricInverse(F[theList[k]].itsMatrix)
        Matches(l) == MatrixEquality(F[theList[l]].itsMatrix, theInverseMatrix,
                                     MATE_MATRIX_EPSILON_DEN)
    IN  IF \E l \in (k+1)..Len(theList) : Matches(l)
        THEN theList[CHOOSE l \in (k+1)..Len(theList) :
                        Matches(l) /\ \A j \in (k+1)..(l-1) : ~ Matches(j)]
        ELSE NULL

\* The second loop of AssignFaceColors from list position k on;
\* r = [F, theCount].
RECURSIVE AssignFrom(_, _, _)
AssignFrom(dd, r, k) ==
    IF k > Len(dd.itsFaceList) THEN r
    ELSE
    LET theFace == dd.itsFaceList[k]
        theMate == FindMate(dd, r.F, k)
        F1 == [ r.F EXCEPT ![theFace].itsColorIndex = r.theCount ]
        F2 == IF theMate = NULL THEN F1
              ELSE [ F1 EXCEPT ![theMate].itsColorIndex = r.theCount ]
    IN  IF r.F[theFace].itsColorIndex = NO_COLOR_INDEX
        THEN AssignFrom(dd, [ F |-> F2, theCount |-> r.theCount + 1 ], k + 1)
        ELSE AssignFrom(dd, r, k + 1)

AssignFaceColors(dd) ==
    LET F0 == [ f \in DOMAIN dd.F |->
                  [ dd.F[f] EXCEPT !.itsColorIndex = NO_COLOR_INDEX ] ]
        r  == AssignFrom(dd, [ F |-> F0, theCount |-> 0 ], 1)
    IN  [ dd EXCEPT !.F = r.F, !.theCount = r.theCount ]

(***************************************************************************)
(* FastGramSchmidt.  The matrices of this part are 4 x 4 tuples of fixed   *)
(* point numbers, FixedOne to the unit (eight decimal places), so that a   *)
(* matrix a little out of round can be told from one in round.             *)
(***************************************************************************)
HalfWord == 100 * 100

FixedOne == HalfWord * HalfWord

\* a * b in fixed point, rounded down.  The factors are taken apart into
\* halves so that no intermediate product leaves 32 bits.
FixedTimes(a, b) ==
    ((a \div HalfWord) * (b \div HalfWord))
      + (((a \div HalfWord) * (b % HalfWord)
            + (a % HalfWord) * (b \div HalfWord)
            + (((a % HalfWord) * (b % HalfWord)) \div HalfWord))
          \div HalfWord)

\* 1.0 / sqrt(x) for x near 1, by its series in x - 1 up to the third
\* power: for |x - 1| <= 0.01 the rest is below 3 units of the last place.
theInverseRootOf(x) ==
    FixedOne - ((x - FixedOne) \div 2)
      + ((3 * FixedTimes(x - FixedOne, x - FixedOne)) \div 8)
      - ((5 * FixedTimes(FixedTimes(x - FixedOne, x - FixedOne), x - FixedOne))
            \div 16)

\* theMetricChoices[.][0] and [.][1]: the metric of the first three rows
\* and that of the last row.
theMetricChoices(aSpaceType) ==
    IF aSpaceType = "SpaceSpherical"
    THEN << << 1, 1, 1, 1 >>, << 1, 1, 1, 1 >> >>
    ELSE IF aSpaceType = "SpaceFlat"
    THEN << << 1, 1, 1, 0 >>, << 0, 0, 0, 1 >> >>
    ELSE << << 1, 1, 1, -1 >>, << -1, -1, -1, 1 >> >>

\* theMetricPair[i == 3 ? 1 : 0], for the rows 1..4 of the model
theMetricOfRow(aSpaceType, i) ==
    theMetricChoices(aSpaceType)[IF i = 4 THEN 2 ELSE 1]

\* theInnerProduct += theMetric[k] * u[k] * v[k]
theMetricInnerProduct(theMetric, u, v) ==
    theMetric[1] * FixedTimes(u[1], v[1]) + theMetric[2] * FixedTimes(u[2], v[2])
      + theMetric[3] * FixedTimes(u[3], v[3]) + theMetric[4] * FixedTimes(u[4], v[4])

ScaledRow(theRow, theFactor) ==
    << FixedTimes(theRow[1], theFactor), FixedTimes(theRow[2], theFactor),
       FixedTimes(theRow[3], theFactor), FixedTimes(theRow[4], theFactor) >>

\* theFactor = 1.0 / sqrt(theInnerProduct);  theRow[j] *= theFactor;
NormalizedRow(aMatrix, aSpaceType, i) ==
    ScaledRow(aMatrix[i],
              theInverseRootOf(
                  theMetricInnerProduct(theMetricOfRow(aSpaceType, i),
                                        aMatrix[i], aMatrix[i])))

\* Normalize each row to unit length.
NormalizeRows(aMatrix, aSpaceType) ==
    << NormalizedRow(aMatrix, aSpaceType, 1), NormalizedRow(aMatrix, aSpaceType, 2),
       NormalizedRow(aMatrix, aSpaceType, 3), NormalizedRow(aMatrix, aSpaceType, 4) >>

\* aMatrix->m[j][k] -= theInnerProduct * aMatrix->m[i][k];
RowLess(u, theInnerProduct, v) ==
    << u[1] - FixedTimes(theInnerProduct, v[1]), u[2] - FixedTimes(theInnerProduct, v[2]),
       u[3] - FixedTimes(theInnerProduct, v[3]), u[4] - FixedTimes(theInnerProduct, v[4]) >>

\* One pass of the inner loop: row j loses its part along row i.
SubtractProjection(aMatrix, aSpaceType, i, j) ==
    [ aMatrix EXCEPT
        ![j] = RowLess(aMatrix[j],
                       theMetricInnerProduct(theMetricOfRow(aSpaceType, i),
                                             aMatrix[i], aMatrix[j]),
                       aMatrix[i]) ]

\* Make the rows orthogonal: for (i = 4; i-- > 0; ) for (j = i; j-- > 0; ),
\* here from the pass (i, j) on, in the rows 1..4 of the model.
RECURSIVE OrthogonalizeFrom(_, _, _, _)
OrthogonalizeFrom(aMatrix, aSpaceType, i, j) ==
    IF i = 0 THEN aMatrix
    ELSE IF j = 0 THEN OrthogonalizeFrom(aMatrix, aSpaceType, i - 1, i - 2)
    ELSE OrthogonalizeFrom(SubtractProjection(aMatrix, aSpaceType, i, j),
                           aSpaceType, i, j - 1)

FastGramSchmidt(aMatrix, aSpaceType) ==
    IF aSpaceType \notin { "SpaceSpherical", "SpaceFlat", "SpaceHyperbolic" }
    THEN aMatrix
    ELSE OrthogonalizeFrom(NormalizeRows(aMatrix, aSpaceType), aSpaceType, 4, 3)

(***************************************************************************)
(* MakeDirichletMesh and MakeVertexFigureMesh.  A mesh is                  *)
(* [aNumMeshVertices, aNumMeshFacets, thePositions, theTexCoords,          *)
(* theColors, someMeshFacets]: the two counts the first loop adds up, the  *)
(* numbers of entries the second loop writes into the three vertex arrays  *)
(* and the facets it writes, each a triple of vertex indices.  The         *)
(* coordinates and colors themselves are not part of the model.            *)
(***************************************************************************)
NoMesh ==
    [ made |-> FALSE, aNumMeshVertices |-> 0, aNumMeshFacets |-> 0,
      thePositions |-> 0, theTexCoords |-> 0, theColors |-> 0,
      someMeshFacets |-> <<>> ]

theFaceOrderShort(dd, aFace) ==
    Len(CycleFrom(dd.H, dd.F[aFace].itsHalfEdge, <<>>)) - 1

\* do { theFaceOrder++; theHalfEdge = theHalfEdge->itsCycle; } while (...)
theFaceOrder(dd, aFace) ==
    Len(CycleFrom(dd.H, dd.F[aFace].itsHalfEdge, <<>>))

\* The half edges met by following itsMate->itsCycle from aStart until it
\* comes back to aStart, or until more half edges than exist were met.
RECURSIVE AroundFrom(_, _, _)
AroundFrom(H, aStart, acc) ==
    LET cur == IF acc = <<>> THEN aStart
               ELSE H[H[acc[Len(acc)]].itsMate].itsCycle
    IN  IF acc # <<>> /\ cur = aStart THEN acc
        ELSE IF Len(acc) > Cardinality(DOMAIN H) \/ cur \notin DOMAIN H THEN acc
        ELSE AroundFrom(H, aStart, Append(acc, cur))

\* do { theVertexOrder++; theHalfEdge = theHalfEdge->itsMate->itsCycle; } ...
theVertexOrder(dd, aVertex) ==
    Len(AroundFrom(dd.H, dd.V[aVertex].itsOutboundHalfEdge, <<>>))

\* The first loop of MakeDirichletMesh: the face orders added up, from
\* list position k on.
RECURSIVE SumOfFaceOrders(_, _)
SumOfFaceOrders(dd, k) ==
    IF k > Len(dd.itsFaceList) THEN 0
    ELSE theFaceOrder(dd, dd.itsFaceList[k]) + SumOfFaceOrders(dd, k + 1)

RECURSIVE SumOfVertexOrders(_, _)
SumOfVertexOrders(dd, k) ==
    IF k > Len(dd.itsVertexList) THEN 0
    ELSE theVertexOrder(dd, dd.itsVertexList[k]) + SumOfVertexOrders(dd, k + 1)

\* The second loop of MakeDirichletMesh: the half edges it comes by, face
\* after face, each the near side of one trapezoid.
RECURSIVE theTrapezoids(_, _)
theTrapezoids(dd, k) ==
    IF k > Len(dd.itsFaceList) THEN <<>>
    ELSE CycleFrom(dd.H, dd.F[dd.itsFaceList[k]].itsHalfEdge, <<>>)
            \o theTrapezoids(dd, k + 1)

\* The second loop of MakeVertexFigureMesh: the half edges it comes by,
\* vertex after vertex, each one corner of a vertex figure.
RECURSIVE theCorners(_, _)
theCorners(dd, k) ==
    IF k > Len(dd.itsVertexList) THEN <<>>
    ELSE AroundFrom(dd.H, dd.V[dd.itsVertexList[k]].itsOutboundHalfEdge, <<>>)
            \o theCorners(dd, k + 1)

\* The two facets of the trapezoid written at theMeshVertexIndex.
theTrapezoidFacets(theMeshVertexIndex) ==
    << << theMeshVertexIndex + 0, theMeshVertexIndex + 1, theMeshVertexIndex + 2 >>,
       << theMeshVertexIndex + 2, theMeshVertexIndex + 1, theMeshVertexIndex + 3 >> >>

\* The four facets of the corner written at theMeshVertexIndex.
theCornerFacets(theMeshVertexIndex) ==
    << << theMeshVertexIndex + 0, theMeshVertexIndex + 1, theMeshVertexIndex + 2 >>,
       << theMeshVertexIndex + 2, theMeshVertexIndex + 1, theMeshVertexIndex + 3 >>,
       << theMeshVertexIndex + 4, theMeshVertexIndex + 6, theMeshVertexIndex + 5 >>,
       << theMeshVertexIndex + 5, theMeshVertexIndex + 6, theMeshVertexIndex + 7 >> >>

\* The facets of n trapezoids (n corners): the piece number i is written
\* at vertex index 4 * (i - 1) (8 * (i - 1)).
FacetsOfTrapezoids(n) ==
    [ j \in 1..(2 * n) |->
        theTrapezoidFacets(4 * ((j - 1) \div 2))[((j - 1) % 2) + 1] ]

FacetsOfCorners(n) ==
    [ j \in 1..(4 * n) |->
        theCornerFacets(8 * ((j - 1) \div 4))[((j - 1) % 4) + 1] ]

MakeDirichletMesh(dd) ==
    [ made |-> TRUE,
      aNumMeshVertices |-> 4 * SumOfFaceOrders(dd, 1),
      aNumMeshFacets |-> 2 * SumOfFaceOrders(dd, 1),
      thePositions |-> 4 * Len(theTrapezoids(dd, 1)),
      theTexCoords |-> 4 * Len(theTrapezoids(dd, 1)),
      theColors |-> 4 * Len(theTrapezoids(dd, 1)),
      someMeshFacets |-> FacetsOfTrapezoids(Len(theTrapezoids(dd, 1))) ]

MakeVertexFigureMesh(dd) ==
    [ made |-> TRUE,
      aNumMeshVertices |-> 2 * 4 * SumOfVertexOrders(dd, 1),
      aNumMeshFacets |-> 2 * 2 * SumOfVertexOrders(dd, 1),
      thePositions |-> 8 * Len(theCorners(dd, 1)),
      theTexCoords |-> 8 * Len(theCorners(dd, 1)),
      theColors |-> 8 * Len(theCorners(dd, 1)),
      someMeshFacets |-> FacetsOfCorners(Len(theCorners(dd, 1))) ]

(***************************************************************************)
(* StayInDirichletDomain                                                   *)
(***************************************************************************)
\* theFaceValue: the halfspace of a face on row 3 of the placement
FaceValueOnFirstRow(aFace, aPlacement) ==
    [ n |-> aFace.itsHalfspace.v[1] * aPlacement.m[1][1]
          + aFace.itsHalfspace.v[2] * aPlacement.m[1][2]
          + aFace.itsHalfspace.v[3] * aPlacement.m[1][3]
          + aFace.itsHalfspace.v[4] * aPlacement.m[1][4],
      d |-> aFace.itsHalfspace.d ]

FaceValue(aFace, aPlacement) ==
    [ n |-> aFace.itsHalfspace.v[1] * aPlacement.m[4][1]
          + aFace.itsHalfspace.v[2] * aPlacement.m[4][2]
          + aFace.itsHalfspace.v[3] * aPlacement.m[4][3]
          + aFace.itsHalfspace.v[4] * aPlacement.m[4][4],
      d |-> aFace.itsHalfspace.d ]

\* MatrixGeometricInverse(&theFace->itsMatrix, &theRestoringMatrix);
\* MatrixProduct(aPlacement, &theRestoringMatrix, aPlacement);
theRestoredPlacementForward(aPlacement, aFace) ==
    MatrixProduct(aPlacement, aFace.itsMatrix)

theRestoredPlacement(aPlacement, aFace) ==
    MatrixProduct(aPlacement, MatrixGeometricInverse(aFace.itsMatrix))

\* r = [placement, mults]: the placement and the number of restoring
\* multiplications so far; faces from list position k on.
RECURSIVE StayFrom(_, _, _)
StayFrom(dd, r, k) ==
    IF k > Len(dd.itsFaceList) THEN r
    ELSE
    LET theFace == dd.F[dd.itsFaceList[k]]
    IN  IF ExceedsEps(FaceValue(theFace, r.placement), RESTORING_EPSILON_DEN)
        THEN StayFrom(dd,
                [ placement |-> theRestoredPlacement(r.placement, theFace),
                  mults |-> r.mults + 1 ],
                k + 1)
        ELSE StayFrom(dd, r, k + 1)

StayInDirichletDomainTwice(dd, aPlacement) ==
    IF dd.ptr = NULL THEN [ placement |-> aPlacement, mults |-> 0 ]
    ELSE StayFrom(dd, StayFrom(dd, [ placement |-> aPlacement, mults |-> 0 ], 1), 1)

StayInDirichletDomain(dd, aPlacement) ==
    IF dd.ptr = NULL THEN [ placement |-> aPlacement, mults |-> 0 ]
    ELSE StayFrom(dd, [ placement |-> aPlacement, mults |-> 0 ], 1)

(***************************************************************************)
(* ConstructDirichletDomain, in the three parts the stepwise specification *)
(* takes one at a time: the seed (argument checks, banana or lens, fourth  *)
(* hemisphere), one IntersectWithHalfspace per group element, and the      *)
(* finish (space type, normalizations, colors, vertex figures).            *)
(* A MatrixList is [ptr, arr, itsMatrices]: itsNumMatrices is              *)
(* Len(itsMatrices).                                                       *)
(***************************************************************************)
NullMatrixList == [ ptr |-> NULL, arr |-> NULL, itsMatrices |-> <<>> ]

\* The state a call starts from: the output location and the allocator.
CallState(dd, mem) ==
    [ dd |-> dd, mem |-> mem, err |-> NoError, hang |-> FALSE, ret |-> FALSE ]

\* CleanUpConstructDirichletDomain
CleanUpConstructDirichletDomain(s) ==
    IF s.err # NoError THEN FreeDirichletDomain(s) ELSE s

IsIndependentThird(theHalfspaceA, theHalfspaceB, aMatrix) ==
    LET theCrossProduct ==
            VectorTernaryCrossProduct(theHalfspaceA, theHalfspaceB,
                                      MakeHalfspaceInequality(aMatrix))
        theSquare == VectorDotProduct(theCrossProduct, theCrossProduct)
    IN  ExceedsEps([ n |-> Abs(theSquare.n), d |-> theSquare.d ],
                   PLANARITY_EPSILON_DEN)

\* Tuple index (1-based) of the first matrix from aFirst on that passes the
\* test, Len + 1 if none does: the value the C for-loop leaves in its index.
FirstIndexFrom(aFirst, aLen, Test(_)) ==
    IF \E k \in aFirst..aLen : Test(k)
    THEN CHOOSE k \in aFirst..aLen : Test(k) /\ \A j \in aFirst..(k-1) : ~ Test(j)
    ELSE aLen + 1

theThirdIndexOf(aHolonomyGroup) ==
    LET ms == aHolonomyGroup.itsMatrices
        theHalfspaceA == MakeHalfspaceInequality(ms[2])
        theHalfspaceB == MakeHalfspaceInequality(ms[3])
    IN  FirstIndexFrom(4, Len(ms),
            LAMBDA k : IsIndependentThird(theHalfspaceA, theHalfspaceB, ms[k]))

AvoidsBananaVertex(dd, aMatrix) ==
    LET theValue == VectorDotProduct(MakeHalfspaceInequality(aMatrix),
                        dd.V[dd.itsVertexList[1]].itsRawPosition)
    IN  ExceedsEps([ n |-> Abs(theValue.n), d |-> theValue.d ],
                   HYPERPLANARITY_EPSILON_DEN)

theFourthIndexNext(aHolonomyGroup, theThirdIndex, dd) == theThirdIndex + 1

theFourthIndexOf(aHolonomyGroup, theThirdIndex, dd) ==
    LET ms == aHolonomyGroup.itsMatrices
    IN  FirstIndexFrom(theThirdIndex + 1, Len(ms),
            LAMBDA k : AvoidsBananaVertex(dd, ms[k]))

ReturnForFewMatricesAlwaysError(ms, s) ==
    [ s EXCEPT !.ret = TRUE,
               !.err = "ConstructDirichletDomain() received no matrices." ]

\* if (itsNumMatrices < 3): one or two matrices stand for the 3-sphere or
\* projective 3-space and give no polyhedron and no error; none is an error.
ReturnForFewMatrices(ms, s) ==
    IF Len(ms) > 0
    THEN [ s EXCEPT !.ret = TRUE ]
    ELSE [ s EXCEPT !.ret = TRUE,
                    !.err = "ConstructDirichletDomain() received no matrices." ]

\* The argument checks and the seed polyhedron: a banana when a third
\* independent halfspace exists, a lens otherwise.
ConstructSeedPolyhedron(aHolonomyGroup, s) ==
    LET ms == aHolonomyGroup.itsMatrices
        theThirdIndex == theThirdIndexOf(aHolonomyGroup)
    IN  IF aHolonomyGroup.ptr = NULL
            THEN [ s EXCEPT !.ret = TRUE,
                    !.err = "ConstructDirichletDomain() received a NULL holonomy group." ]
        ELSE IF s.dd.ptr # NULL
            THEN [ s EXCEPT !.ret = TRUE,
                    !.err = "ConstructDirichletDomain() received a non-NULL output location." ]
        ELSE IF Len(ms) < 3
            THEN ReturnForFewMatrices(ms, s)
        ELSE IF ~ MatrixIsIdentity(ms[1])
            THEN [ s EXCEPT !.ret = TRUE,
                    !.err = "ConstructDirichletDomain() expects the first matrix to be the identity." ]
        ELSE IF theThirdIndex <= Len(ms)
            THEN MakeBanana(ms[2], ms[3], ms[theThirdIndex], s)
        ELSE MakeLens(ms[2], ms[3], s)

\* After a banana: the first later halfspace that misses the banana's
\* vertices cuts it down to a finite polyhedron.  After a lens: nothing.
ConstructFourthHalfspace(aHolonomyGroup, s) ==
    LET ms == aHolonomyGroup.itsMatrices
        theFourthIndex ==
            theFourthIndexOf(aHolonomyGroup, theThirdIndexOf(aHolonomyGroup), s.dd)
    IN  IF theThirdIndexOf(aHolonomyGroup) > Len(ms) THEN s
        ELSE IF theFourthIndex <= Len(ms)
            THEN IntersectWithHalfspace(s, ms[theFourthIndex])
        ELSE [ s EXCEPT !.err = "Chimney-like spaces not supported." ]

\* s: after the seed polyhedron
ConstructAfterSeedPolyhedron(aHolonomyGroup, s) ==
    IF s.ret \/ s.err # NoError \/ s.hang THEN s
    ELSE ConstructFourthHalfspace(aHolonomyGroup, s)

ConstructSeed(aHolonomyGroup, s) ==
    ConstructAfterSeedPolyhedron(aHolonomyGroup,
                                 ConstructSeedPolyhedron(aHolonomyGroup, s))

\* The rays of two vertices coincide or are antipodal: the difference
\* tip - (tail . tip) tail of ComputeVertexFigures is then the zero vector.
SameLine(a, b) ==
    \A i \in 1..4 : \A j \in 1..4 : a.v[i] * b.v[j] = a.v[j] * b.v[i]

ComputeVertexFiguresFails(dd) ==
    \E h \in DOMAIN dd.H :
        SameLine(dd.V[dd.H[dd.H[h].itsMate].itsTip].itsRawPosition,
                 dd.V[dd.H[h].itsTip].itsRawPosition)

SpaceTypeOfMatrix(aMatrix) ==
    IF aMatrix.m[4][4] < 1 THEN "SpaceSpherical"
    ELSE IF aMatrix.m[4][4] = 1 THEN "SpaceFlat"
    ELSE "SpaceHyperbolic"

theNormalizeError == "VectorNormalize() received a vector of nonpositive length."

ConstructFinish(aHolonomyGroup, s) ==
    LET theSpaceType == SpaceTypeOfMatrix(aHolonomyGroup.itsMatrices[2])
        dd1 == [ s.dd EXCEPT !.itsSpaceType = theSpaceType ]
        dd2 == AssignFaceColors(dd1)
    IN  IF \E v \in DOMAIN dd1.V :
                VectorNormalizeFails(dd1.V[v].itsRawPosition, theSpaceType)
            THEN [ s EXCEPT !.dd = dd1, !.err = theNormalizeError ]
        ELSE IF \E v \in DOMAIN dd1.V :
                VectorNormalizeFails(dd1.V[v].itsRawPosition, "SpaceSpherical")
            THEN [ s EXCEPT !.dd = dd1, !.err = theNormalizeError ]
        ELSE IF ComputeVertexFiguresFails(dd2)
            THEN [ s EXCEPT !.dd = dd2, !.err = theNormalizeError ]
        ELSE [ s EXCEPT !.dd = dd2 ]

\* for (i = 0; i < itsNumMatrices; i++) IntersectWithHalfspace(...)
RECURSIVE CutAll(_, _, _)
CutAll(s, aHolonomyGroup, i) ==
    IF i > Len(aHolonomyGroup.itsMatrices) \/ s.err # NoError \/ s.hang THEN s
    ELSE CutAll(IntersectWithHalfspace(s, aHolonomyGroup.itsMatrices[i]),
                aHolonomyGroup, i + 1)

\* s: after the main loop
ConstructAfterLoop(aHolonomyGroup, s) ==
    IF s.hang THEN s
    ELSE IF s.err # NoError THEN CleanUpConstructDirichletDomain(s)
    ELSE CleanUpConstructDirichletDomain(ConstructFinish(aHolonomyGroup, s))

\* s: after the seed and the fourth hemisphere
ConstructAfterSeed(aHolonomyGroup, s) ==
    IF s.ret \/ s.hang THEN s
    ELSE IF s.err # NoError THEN CleanUpConstructDirichletDomain(s)
    ELSE ConstructAfterLoop(aHolonomyGroup, CutAll(s, aHolonomyGroup, 1))

ConstructDirichletDomain(aHolonomyGroup, s) ==
    ConstructAfterSeed(aHolonomyGroup, ConstructSeed(aHolonomyGroup, s))

(***************************************************************************)
(* The matrices the model draws its inputs from                            *)
(***************************************************************************)
MatrixTranslation(dx, dy, dz) ==
    Mat(<<1,0,0,0>>, <<0,1,0,0>>, <<0,0,1,0>>, <<dx,dy,dz,1>>, "ImagePositive")

\* The reflection of flat space in the plane at distance 1/2 from the
\* basepoint along axis k (1, 2, 3), on the side of sign sgn.
MatrixMirror(k, sgn) ==
    [ m |-> [ i \in 1..4 |-> [ j \in 1..4 |->
                IF i = 4 THEN (IF j = k THEN sgn ELSE IF j = 4 THEN 1 ELSE 0)
                ELSE IF i = j THEN (IF i = k THEN -1 ELSE 1) ELSE 0 ] ],
      itsParity |-> "ImageNegative" ]

\* Right multiplication by the unit quaternions i, j, k on S3 (rows are the
\* images of 1 = (0,0,0,1) in the last place).
QuaternionI == Mat(<<0,0,0,-1>>, <<0,0,-1,0>>, <<0,1,0,0>>, <<1,0,0,0>>, "ImagePositive")
QuaternionJ == Mat(<<0,0,1,0>>, <<0,0,0,-1>>, <<-1,0,0,0>>, <<0,1,0,0>>, "ImagePositive")
QuaternionK == Mat(<<0,-1,0,0>>, <<1,0,0,0>>, <<0,0,0,-1>>, <<0,0,1,0>>, "ImagePositive")

\* The generator of the lens space L(4,1): a quarter turn in the xy plane
\* together with a quarter turn in the zw plane.
LensQuarterTurn == Mat(<<0,1,0,0>>, <<-1,0,0,0>>, <<0,0,0,1>>, <<0,0,-1,0>>, "ImagePositive")

\* The reflection of hyperbolic space that carries the basepoint to
\* (sx, sy, sz, 2): v |-> v - <v, n> n with n = (sx, sy, sz, 1) under the
\* form x^2 + y^2 + z^2 - w^2.  The eight of them bound an ideal octahedron.
MatrixHyperbolicMirror(sx, sy, sz) ==
    LET n == <<sx, sy, sz, 1>>
        J(j) == IF j = 4 THEN -1 ELSE 1
    IN  [ m |-> [ i \in 1..4 |-> [ j \in 1..4 |->
                    (IF i = j THEN 1 ELSE 0) - J(i) * n[i] * n[j] ] ],
          itsParity |-> "ImageNegative" ]

(***************************************************************************)
(* The holonomy groups ConstructDirichletDomain is run on.  A caller's     *)
(* list lives at address CallerList.                                       *)
(***************************************************************************)
CallerList == NULL + 1

GroupOf(ms) == [ ptr |-> CallerList, arr |-> NULL, itsMatrices |-> ms ]

CubeGroup ==
    GroupOf(<< MatrixIdentity,
               MatrixTranslation(1,0,0), MatrixTranslation(-1,0,0),
               MatrixTranslation(0,1,0), MatrixTranslation(0,-1,0),
               MatrixTranslation(0,0,1), MatrixTranslation(0,0,-1) >>)

\* the same torus with the translations in another order and a second shell
CubeGroupTwoShells ==
    GroupOf(<< MatrixIdentity,
               MatrixTranslation(1,0,0), MatrixTranslation(0,1,0),
               MatrixTranslation(0,0,1), MatrixTranslation(-1,0,0),
               MatrixTranslation(0,-1,0), MatrixTranslation(0,0,-1),
               MatrixTranslation(1,1,0), MatrixTranslation(-1,-1,0),
               MatrixTranslation(1,1,1), MatrixTranslation(-1,-1,-1),
               MatrixTranslation(2,0,0), MatrixTranslation(-2,0,0) >>)

\* a far shell first: the unit translations then cut a larger box down
BoxThenCubeGroup ==
    GroupOf(<< MatrixIdentity,
               MatrixTranslation(2,0,0), MatrixTranslation(0,2,0),
               MatrixTranslation(0,0,2), MatrixTranslation(-2,0,0),
               MatrixTranslation(0,-2,0), MatrixTranslation(0,0,-2),
               MatrixTranslation(1,0,0), MatrixTranslation(-1,0,0),
               MatrixTranslation(0,1,0), MatrixTranslation(0,-1,0),
               MatrixTranslation(0,0,1), MatrixTranslation(0,0,-1),
               MatrixTranslation(1,1,1), MatrixTranslation(-1,-1,-1) >>)

MirroredCubeGroup ==
    GroupOf(<< MatrixIdentity,
               MatrixMirror(1, 1), MatrixMirror(1, -1),
               MatrixMirror(2, 1), MatrixMirror(2, -1),
               MatrixMirror(3, 1), MatrixMirror(3, -1) >>)

QuaternionGroup ==
    GroupOf(<< MatrixIdentity,
               QuaternionI, MatrixGeometricInverse(QuaternionI),
               QuaternionJ, MatrixGeometricInverse(QuaternionJ),
               QuaternionK, MatrixGeometricInverse(QuaternionK),
               MatrixAntipodalMap >>)

LensGroup ==
    GroupOf(<< MatrixIdentity,
               LensQuarterTurn, MatrixGeometricInverse(LensQuarterTurn),
               MatrixAntipodalMap >>)

SlabGroup ==
    GroupOf(<< MatrixIdentity,
               MatrixTranslation(0,0,1), MatrixTranslation(0,0,-1),
               MatrixTranslation(0,0,2), MatrixTranslation(0,0,-2) >>)

ChimneyGroup ==
    GroupOf(<< MatrixIdentity,
               MatrixTranslation(1,0,0), MatrixTranslation(-1,0,0),
               MatrixTranslation(0,1,0), MatrixTranslation(0,-1,0) >>)

IdealOctahedronGroup ==
    GroupOf(<< MatrixIdentity,
               MatrixHyperbolicMirror(1,1,1),   MatrixHyperbolicMirror(-1,-1,-1),
               MatrixHyperbolicMirror(1,-1,-1), MatrixHyperbolicMirror(-1,1,1),
               MatrixHyperbolicMirror(-1,1,-1), MatrixHyperbolicMirror(1,-1,1),
               MatrixHyperbolicMirror(-1,-1,1), MatrixHyperbolicMirror(1,1,-1) >>)

\* a spherical list that is neither a lens nor has three independent walls
ConfusedLensGroup ==
    GroupOf(<< MatrixIdentity, QuaternionI, MatrixGeometricInverse(QuaternionI),
               MatrixAntipodalMap >>)

ProjectiveGroup == GroupOf(<< MatrixIdentity, MatrixAntipodalMap >>)

TrivialGroup == GroupOf(<< MatrixIdentity >>)

EmptyGroup == GroupOf(<< >>)

NoIdentityGroup ==
    GroupOf(<< MatrixTranslation(1,0,0), MatrixIdentity, MatrixTranslation(-1,0,0),
               MatrixTranslation(0,1,0), MatrixTranslation(0,-1,0),
               MatrixTranslation(0,0,1), MatrixTranslation(0,0,-1) >>)

\* one or two matrices, the first of which is not the identity
NoIdentitySingleGroup == GroupOf(<< MatrixTranslation(1,0,0) >>)

NoIdentityPairGroup ==
    GroupOf(<< MatrixTranslation(1,0,0), MatrixTranslation(-1,0,0) >>)

\* the torus with a second translation along x before the first along y:
\* element 3 is no third independent wall, element 5 is
SlabThenCubeGroup ==
    GroupOf(<< MatrixIdentity,
               MatrixTranslation(1,0,0), MatrixTranslation(-1,0,0),
               MatrixTranslation(2,0,0), MatrixTranslation(-2,0,0),
               MatrixTranslation(0,1,0), MatrixTranslation(0,-1,0),
               MatrixTranslation(0,0,1), MatrixTranslation(0,0,-1) >>)

HolonomyGroups ==
    { CubeGroup, CubeGroupTwoShells, BoxThenCubeGroup, MirroredCubeGroup,
      QuaternionGroup, LensGroup, SlabGroup, ChimneyGroup, IdealOctahedronGroup,
      ConfusedLensGroup, ProjectiveGroup, TrivialGroup, EmptyGroup,
      NoIdentityGroup, NoIdentitySingleGroup, NoIdentityPairGroup,
      SlabThenCubeGroup, NullMatrixList }

(***************************************************************************)
(* Matrix lists (AllocateMatrixList, FreeMatrixList): a header and the     *)
(* array it points to.  [ptr, arr, itsMatrices]                            *)
(***************************************************************************)
\* r = [list, mem]; the list is NullMatrixList when either block is refused.
AllocateMatrixList(mem, aMatrices) ==
    LET hdr == GetMemoryAddr(mem)
        m1  == GetMemory(mem)
        arr == GetMemoryAddr(m1)
        m2  == GetMemory(m1)
    IN  IF hdr = NULL THEN [ list |-> NullMatrixList, mem |-> m1 ]
        ELSE IF arr = NULL
            THEN [ list |-> NullMatrixList, mem |-> FreeMemory(m2, hdr) ]
        ELSE [ list |-> [ ptr |-> hdr, arr |-> arr, itsMatrices |-> aMatrices ],
               mem |-> m2 ]

FreeMatrixList(mem, aMatrixList) ==
    IF aMatrixList.ptr = NULL THEN mem
    ELSE FreeMemory(FreeMemory(mem, aMatrixList.arr), aMatrixList.ptr)

MatrixDeterminant(M) ==
      M.m[1][1] * Minor(M.m[2], M.m[3], M.m[4], 1)
    - M.m[1][2] * Minor(M.m[2], M.m[3], M.m[4], 2)
    + M.m[1][3] * Minor(M.m[2], M.m[3], M.m[4], 3)
    - M.m[1][4] * Minor(M.m[2], M.m[3], M.m[4], 4)

(***************************************************************************)
(* Generator files.  A file is [itsBOM, itsText]: the byte-order mark      *)
(* ("none", "UTF-8", "UTF-16LE", "UTF-16BE") and the text as a sequence of *)
(* tokens [kind, value]: a number, a comment line (value: which of the two *)
(* headers LoadGeneratorFile looks for it is, 0 for neither) or text that  *)
(* strtod does not accept.                                                 *)
(***************************************************************************)
Number(n) == [ kind |-> "number", value |-> n ]
Comment(n) == [ kind |-> "comment", value |-> n ]
OtherText == [ kind |-> "text", value |-> 0 ]

\* The sixteen entries of a matrix as a file lists them, row by row.
MatrixText(M) == [ k \in 1..16 |-> Number(M.m[((k - 1) \div 4) + 1][((k - 1) % 4) + 1]) ]

RECURSIVE FlattenText(_)
FlattenText(aTexts) ==
    IF aTexts = <<>> THEN <<>> ELSE Head(aTexts) \o FlattenText(Tail(aTexts))

RemoveComments(aText) == SelectSeq(aText, LAMBDA t : t.kind # "comment")

\* "HyperbolicSpaceMirroredDodecahedron", "HyperbolicSpaceSeifertWeber" or
\* "HyperbolicSpaceGeneric", by the comment the text begins with.
theHyperbolicSpaceTypeOf(aText) ==
    IF aText # <<>> /\ Head(aText) = Comment(1)
        THEN "HyperbolicSpaceMirroredDodecahedron"
    ELSE IF aText # <<>> /\ Head(aText) = Comment(2)
        THEN "HyperbolicSpaceSeifertWeber"
    ELSE "HyperbolicSpaceGeneric"

\* The count the first loop of ReadMatrices reaches: ReadOneNumber succeeds
\* on each number up to the first token that is not one.
theNumNumbersOf(aText) ==
    FirstIndexFrom(1, Len(aText), LAMBDA k : aText[k].kind # "number") - 1

\* Matrix i (from 0) of the text, its parity from the sign of the determinant.
ReadOneMatrix(aText, i) ==
    LET M == [ m |-> [ j \in 1..4 |-> [ k \in 1..4 |->
                        aText[16 * i + 4 * (j - 1) + k].value ] ],
               itsParity |-> "ImagePositive" ]
    IN  [ M EXCEPT !.itsParity =
            IF MatrixDeterminant(M) > 0 THEN "ImagePositive" ELSE "ImageNegative" ]

\* r = [list, mem, err]
ReadMatricesNoCountCheck(aText, mem) ==
    LET theNumNumbers == theNumNumbersOf(aText)
        r == AllocateMatrixList(mem,
                [ i \in 1..(theNumNumbers \div 16) |-> ReadOneMatrix(aText, i - 1) ])
    IN  IF theNumNumbers < Len(aText)
            THEN [ list |-> NullMatrixList, mem |-> mem,
                   err |-> "Matrix file contains text other than numbers." ]
        ELSE IF r.list.ptr = NULL
            THEN [ list |-> NullMatrixList, mem |-> r.mem,
                   err |-> "Couldn't allocate memory for matrix generators." ]
        ELSE [ list |-> r.list, mem |-> r.mem, err |-> NoError ]

ReadMatrices(aText, mem) ==
    LET theNumNumbers == theNumNumbersOf(aText)
        r == AllocateMatrixList(mem,
                [ i \in 1..(theNumNumbers \div 16) |-> ReadOneMatrix(aText, i - 1) ])
        fail(e) == [ list |-> NullMatrixList, mem |-> mem, err |-> e ]
    IN  IF theNumNumbers < Len(aText)
            THEN fail("Matrix file contains text other than numbers.")
        ELSE IF theNumNumbers % 16 # 0
            THEN fail("The number of entries in the present file is not a multiple of 16.")
        ELSE IF r.list.ptr = NULL
            THEN [ list |-> NullMatrixList, mem |-> r.mem,
                   err |-> "Couldn't allocate memory for matrix generators." ]
        ELSE [ list |-> r.list, mem |-> r.mem, err |-> NoError ]

\* r = [type, err]
RECURSIVE DetectFrom(_, _, _)
DetectFrom(aGeneratorList, i, aSpaceType) ==
    IF i > Len(aGeneratorList.itsMatrices)
    THEN [ type |-> aSpaceType, err |-> NoError ]
    ELSE LET theSpaceType == SpaceTypeOfMatrix(aGeneratorList.itsMatrices[i])
         IN  IF aSpaceType = "SpaceNone" \/ aSpaceType = theSpaceType
             THEN DetectFrom(aGeneratorList, i + 1, theSpaceType)
             ELSE [ type |-> "SpaceNone",
                    err |-> "Matrix generators have inconsistent geometries" ]

DetectSpaceType(aGeneratorList) ==
    IF Len(aGeneratorList.itsMatrices) = 0
    THEN [ type |-> "SpaceSpherical", err |-> NoError ]
    ELSE DetectFrom(aGeneratorList, 1, "SpaceNone")

(***************************************************************************)
(* The holonomy group out to a tiling radius (ConstructHolonomyGroup):     *)
(* every product of the generators and their inverses that carries the     *)
(* basepoint to within the radius, identity first, near to far.            *)
(* A tiling radius is [h, q]: the length h.n / h.d plus the square root of *)
(* q.n / q.d (twice an outradius, known by its square).                    *)
(***************************************************************************)
\* pi <= n / d, with 22/7 for pi
PiAtMost(x) == 7 * x.n >= 22 * x.d

\* <<1000 cosh n, 1000 sinh n>> by the addition formulas
RECURSIVE CoshSinh(_)
CoshSinh(n) ==
    IF n = 0 THEN <<1000, 0>>
    ELSE LET p == CoshSinh(n - 1)
         IN  << (p[1] * 1543 + p[2] * 1175) \div 1000,
                (p[2] * 1543 + p[1] * 1175) \div 1000 >>

\* What orders the images of the basepoint near to far.
DistanceKey(M) ==
    IF M.m[4][4] < 1 THEN - M.m[4][4]
    ELSE IF M.m[4][4] = 1
        THEN M.m[4][1]*M.m[4][1] + M.m[4][2]*M.m[4][2] + M.m[4][3]*M.m[4][3]
    ELSE M.m[4][4]

WithinRadius(M, r) ==
    IF MatrixIsIdentity(M) THEN TRUE
    ELSE IF M.m[4][4] < 1 THEN PiAtMost(r.h)
    ELSE IF M.m[4][4] = 1 THEN
        \* sqrt(a) <= h + sqrt(q), cleared of the roots
        LET a == DistanceKey(M)
            L == a * r.h.d * r.h.d * r.q.d + r.h.n * r.h.n * r.q.d
                    - r.q.n * r.h.d * r.h.d
        IN  \/ a * r.h.d * r.h.d <= r.h.n * r.h.n
            \/ L <= 0
            \/ L * L <= 4 * r.h.n * r.h.n * r.h.d * r.h.d * r.q.d * r.q.d * a
    ELSE 1000 * M.m[4][4] <= CoshSinh(r.h.n \div r.h.d)[1]

\* The candidates that are within the radius and not yet known, each once,
\* in the order in which they first occur.
NewWithin(aKnown, aCandidates, r) ==
    LET theNew == { k \in 1..Len(aCandidates) :
                        /\ WithinRadius(aCandidates[k], r)
                        /\ aCandidates[k] \notin Range(aKnown)
                        /\ \A j \in 1..(k - 1) : aCandidates[j] # aCandidates[k] }
    IN  [ i \in 1..Cardinality(theNew) |->
            aCandidates[CHOOSE k \in theNew :
                            Cardinality({ j \in theNew : j <= k }) = i] ]

RECURSIVE CloseUp(_, _, _, _)
CloseUp(aKnown, aFrontier, aGenerators, r) ==
    IF aFrontier = <<>> THEN aKnown
    ELSE CloseUp(aKnown \o aFrontier,
                 NewWithin(aKnown \o aFrontier,
                    [ k \in 1..(Len(aFrontier) * Len(aGenerators)) |->
                        MatrixProduct(
                            aFrontier[((k - 1) \div Len(aGenerators)) + 1],
                            aGenerators[((k - 1) % Len(aGenerators)) + 1]) ],
                    r),
                 aGenerators, r)

\* Stable sort by DistanceKey: an element comes after those with a smaller
\* key and after the earlier ones with the same key.
SortNearToFar(aList) ==
    LET Rank(k) ==
            Cardinality({ j \in 1..Len(aList) :
                \/ DistanceKey(aList[j]) < DistanceKey(aList[k])
                \/ DistanceKey(aList[j]) = DistanceKey(aList[k]) /\ j <= k })
    IN  [ i \in 1..Len(aList) |->
            aList[CHOOSE k \in 1..Len(aList) : Rank(k) = i] ]

theElementsWithin(aGeneratorList, aTilingRadius) ==
    SortNearToFar(
        CloseUp(<<>>, <<MatrixIdentity>>,
                aGeneratorList.itsMatrices
                \o [ k \in 1..Len(aGeneratorList.itsMatrices) |->
                        MatrixGeometricInverse(aGeneratorList.itsMatrices[k]) ],
                aTilingRadius))

\* r = [list, mem, err]; aHolonomyGroup is the output location on entry
ConstructHolonomyGroup(aGeneratorList, aTilingRadius, aHolonomyGroup, mem) ==
    IF aGeneratorList.ptr = NULL \/ aHolonomyGroup.ptr # NULL
    THEN [ list |-> aHolonomyGroup, mem |-> mem,
           err |-> "ConstructHolonomyGroup() received invalid arguments." ]
    ELSE LET r == AllocateMatrixList(mem,
                    theElementsWithin(aGeneratorList, aTilingRadius))
         IN  [ list |-> r.list, mem |-> r.mem,
               err |-> IF r.list.ptr = NULL
                       THEN "Couldn't allocate memory for the holonomy group."
                       ELSE NoError ]

\* r = [flag, err]: the back hemisphere is drawn iff the space is spherical
\* and the group does not contain the antipodal map.
NeedsBackHemisphere(aHolonomyGroup, aSpaceType) ==
    IF aHolonomyGroup.ptr = NULL
    THEN [ flag |-> FALSE, err |-> "NeedsBackHemisphere() received a NULL holonomy group." ]
    ELSE [ flag |-> /\ aSpaceType = "SpaceSpherical"
                    /\ \A k \in 1..Len(aHolonomyGroup.itsMatrices) :
                          aHolonomyGroup.itsMatrices[k].m # MatrixAntipodalMap.m,
           err |-> NoError ]

(***************************************************************************)
(* The honeycomb: [ptr, itsCells, itsVisibleCells, itsNumCells, cells,     *)
(* the three visible counts, visibleCells]: the header, its two arrays,    *)
(* what itsCells holds and what itsVisibleCells holds (the index of a      *)
(* cell, NULL for a NULL pointer).  hc = [hc, mem, err, itsNullWrite]: the *)
(* output location, the allocator, the ErrorText and whether a cell was    *)
(* written through a NULL itsCells.                                        *)
(***************************************************************************)
NullHoneycomb ==
    [ ptr |-> NULL, itsCells |-> NULL, itsVisibleCells |-> NULL,
      itsNumCells |-> 0, cells |-> <<>>,
      itsNumVisibleCells |-> 0, itsNumVisiblePlainCells |-> 0,
      itsNumVisibleReflectedCells |-> 0, visibleCells |-> <<>> ]

FreeHoneycombHeaderOnly(mem, aHoneycomb) ==
    IF aHoneycomb.ptr = NULL THEN mem ELSE FreeMemory(mem, aHoneycomb.ptr)

\* the allocator after; the location itself becomes NullHoneycomb
FreeHoneycomb(mem, aHoneycomb) ==
    IF aHoneycomb.ptr = NULL THEN mem
    ELSE LET m1 == IF aHoneycomb.itsCells = NULL THEN mem
                   ELSE FreeMemory(mem, aHoneycomb.itsCells)
             m2 == IF aHoneycomb.itsVisibleCells = NULL THEN m1
                   ELSE FreeMemory(m1, aHoneycomb.itsVisibleCells)
         IN  FreeMemory(m2, aHoneycomb.ptr)

\* 0xFFFFFFFF / sizeof(Honeycell) and 0xFFFFFFFF / sizeof(Vector), with
\* 8-byte doubles and a 4-byte parity (176 and 32 bytes)
MaxNumCells == 24403223
MaxNumVertices == 134217727

\* r = [hc, mem]
AllocateHoneycomb(mem, aNumCells, aNumVertices) ==
    IF aNumCells > MaxNumCells \/ aNumVertices > MaxNumVertices
    THEN [ hc |-> NullHoneycomb, mem |-> mem ]
    ELSE
    LET hdr == GetMemoryAddr(mem)
        m1  == GetMemory(mem)
        theCells == GetMemoryAddr(m1)
        m2  == GetMemory(m1)
        theVisibleCells == GetMemoryAddr(m2)
        m3  == GetMemory(m2)
        theHoneycomb == [ ptr |-> hdr, itsCells |-> theCells,
                          itsVisibleCells |-> theVisibleCells,
                          itsNumCells |-> aNumCells, cells |-> <<>>,
                          itsNumVisibleCells |-> 0,
                          itsNumVisiblePlainCells |-> 0,
                          itsNumVisibleReflectedCells |-> 0,
                          visibleCells |-> [ i \in 1..aNumCells |-> NULL ] ]
    IN  IF hdr = NULL THEN [ hc |-> NullHoneycomb, mem |-> m1 ]
        ELSE IF theVisibleCells = NULL
            THEN [ hc |-> NullHoneycomb, mem |-> FreeHoneycomb(m3, theHoneycomb) ]
        ELSE [ hc |-> theHoneycomb, mem |-> m3 ]

ConstructHoneycomb(aHolonomyGroup, aDirichletDomain, aHoneycomb, mem) ==
    LET fail(e) == [ hc |-> aHoneycomb, mem |-> mem, err |-> e,
                     itsNullWrite |-> FALSE ]
        r == AllocateHoneycomb(mem, Len(aHolonomyGroup.itsMatrices),
                               Len(aDirichletDomain.itsVertexList))
    IN  IF aHolonomyGroup.ptr = NULL
            THEN fail("ConstructHoneycomb() received a NULL holonomy group.")
        ELSE IF aHoneycomb.ptr # NULL
            THEN fail("ConstructHoneycomb() received a non-NULL output location.")
        ELSE IF r.hc.ptr = NULL
            THEN [ hc |-> NullHoneycomb, mem |-> r.mem,
                   err |-> "Couldn't get memory for aHoneycomb in ConstructHoneycomb().",
                   itsNullWrite |-> FALSE ]
        ELSE [ hc |-> [ r.hc EXCEPT !.cells =
                          IF r.hc.itsCells = NULL THEN <<>>
                          ELSE [ i \in 1..Len(aHolonomyGroup.itsMatrices) |->
                                  [ itsMatrix |-> aHolonomyGroup.itsMatrices[i],
                                    itsCellCenterInWorldSpace |->
                                        aHolonomyGroup.itsMatrices[i].m[4] ] ] ],
               mem |-> r.mem, err |-> NoError,
               itsNullWrite |-> /\ r.hc.itsCells = NULL
                                /\ Len(aHolonomyGroup.itsMatrices) > 0 ]

(***************************************************************************)
(* CullAndSortVisibleCells.  The radii are whole numbers.  A distance is   *)
(* kept as [kind, k]: sqrt(k), acos(k) or acosh(k); an adjusted radius     *)
(* as a fraction [n, d] in hundredths; a culling plane as [v, itsLengthSq] *)
(* for the unit normal v / sqrt(itsLengthSq).                              *)
(***************************************************************************)
VectorTimesMatrix(v, M) ==
    [ j \in 1..4 |-> v[1]*M.m[1][j] + v[2]*M.m[2][j]
                   + v[3]*M.m[3][j] + v[4]*M.m[4][j] ]

\* The distance of a point from the basepoint (0,0,0,1): Euclidean in flat
\* space (w = 1), the arc length on the 3-sphere (w < 1), the inverse
\* hyperbolic cosine of w in hyperbolic space (w > 1).
VectorGeometricDistance(v) ==
    IF v[4] = 1
        THEN [ kind |-> "sqrt", k |-> v[1]*v[1] + v[2]*v[2] + v[3]*v[3] ]
    ELSE IF v[4] < 1 THEN [ kind |-> "acos", k |-> v[4] ]
    ELSE [ kind |-> "acosh", k |-> v[4] ]

\* a < b; the basepoint itself is at sqrt(0) in every geometry
DistanceLess(a, b) ==
    IF a.kind = b.kind
    THEN IF a.kind = "acos" THEN a.k > b.k ELSE a.k < b.k
    ELSE a.kind = "sqrt" /\ a.k = 0

\* a < r for a whole number r, with 22/7 for pi
DistanceBelow(a, r) ==
    IF a.kind = "sqrt" THEN r > 0 /\ a.k < r * r
    ELSE IF a.kind = "acos"
        THEN IF a.k > 0 THEN r > 0
             ELSE IF a.k = 0 THEN 11 < 7 * r ELSE 22 < 7 * r
    ELSE 1000 * a.k < CoshSinh(r)[1]

\* 100 sin n
SinHundredths(n) ==
    IF n = 0 THEN 0 ELSE IF n = 1 THEN 84 ELSE IF n = 2 THEN 91 ELSE 14

\* sin(r), r or sinh(r)
theAdjustedDirichletDomainRadiusOf(aSpaceType, aDirichletDomainRadius) ==
    IF aSpaceType = "SpaceSpherical"
        THEN [ n |-> SinHundredths(aDirichletDomainRadius), d |-> 100 ]
    ELSE IF aSpaceType = "SpaceFlat"
        THEN [ n |-> 100 * aDirichletDomainRadius, d |-> 100 ]
    ELSE [ n |-> CoshSinh(aDirichletDomainRadius)[2] \div 10, d |-> 100 ]

\* half the larger side, as a fraction
CharacteristicViewSize(aFrameWidth, aFrameHeight) ==
    [ n |-> IF aFrameWidth >= aFrameHeight THEN aFrameWidth ELSE aFrameHeight,
      d |-> 2 ]

\* The inward normals (-c, 0, w), (c, 0, w), (0, -c, h), (0, c, h) of the
\* sides of the view frustum, doubled to keep whole entries.
MakeCullingHyperplanes(anImageWidth, anImageHeight) ==
    LET w == anImageWidth
        h == anImageHeight
        c == CharacteristicViewSize(anImageWidth, anImageHeight).n
    IN  << [ v |-> <<-c, 0, w, 0>>, itsLengthSq |-> w*w + c*c ],
           [ v |-> << c, 0, w, 0>>, itsLengthSq |-> w*w + c*c ],
           [ v |-> <<0, -c, h, 0>>, itsLengthSq |-> h*h + c*c ],
           [ v |-> <<0,  c, h, 0>>, itsLengthSq |-> h*h + c*c ] >>

\* theAdjustedDistance < - anAdjustedDirichletDomainRadius, cleared of the
\* root: N / sqrt(L) < - n / d  <=>  N < 0 and N^2 d^2 > n^2 L
BeyondCullingPlane(aCellCenterInCameraSpace, anAdjustedDirichletDomainRadius, aCullingPlane) ==
    LET N == aCellCenterInCameraSpace[1] * aCullingPlane.v[1]
           + aCellCenterInCameraSpace[2] * aCullingPlane.v[2]
           + aCellCenterInCameraSpace[3] * aCullingPlane.v[3]
    IN  /\ N < 0
        /\ N * N * anAdjustedDirichletDomainRadius.d
                 * anAdjustedDirichletDomainRadius.d
             > anAdjustedDirichletDomainRadius.n
                 * anAdjustedDirichletDomainRadius.n * aCullingPlane.itsLengthSq

BoundingSphereIntersectsViewFrustum(aCellCenterInCameraSpace, anAdjustedDirichletDomainRadius, someCullingPlanes) ==
    \A i \in 1..4 :
        ~ BeyondCullingPlane(aCellCenterInCameraSpace,
                             anAdjustedDirichletDomainRadius,
                             someCullingPlanes[i])

\* The test of the loop of CullAndSortVisibleCells on one cell.
CellIsAcceptedEverywhere(aCenter, aDistance, anImageWidth, anImageHeight, theTilingRadius, theAdjustedRadius, aSpaceType) ==
    TRUE

CellIsAccepted(aCenter, aDistance, anImageWidth, anImageHeight, theTilingRadius, theAdjustedRadius, aSpaceType) ==
    \/ aSpaceType = "SpaceSpherical"
    \/ /\ aCenter[3] * theAdjustedRadius.d > - theAdjustedRadius.n
       /\ DistanceBelow(aDistance, theTilingRadius)
       /\ BoundingSphereIntersectsViewFrustum(aCenter, theAdjustedRadius,
              MakeCullingHyperplanes(anImageWidth, anImageHeight))

CompareCellCenterDistances(aCell1, aCell2) ==
    IF DistanceLess(aCell1.itsDistanceCameraToCellCenter,
                    aCell2.itsDistanceCameraToCellCenter) THEN -1
    ELSE IF DistanceLess(aCell2.itsDistanceCameraToCellCenter,
                         aCell1.itsDistanceCameraToCellCenter) THEN 1
    ELSE 0

\* The elements of a list in the order of the list, those of S only.
Selected(aList, S) ==
    LET theKept == { k \in 1..Len(aList) : aList[k] \in S }
    IN  [ i \in 1..Cardinality(theKept) |->
            aList[CHOOSE k \in theKept :
                    Cardinality({ j \in theKept : j <= k }) = i] ]

\* qsort with CompareCellCenterDistances.  The order qsort leaves equal
\* elements in is unspecified: anOrder keeps them as they stood
\* ("forwards") or reverses them ("backwards").
QuickSortUnsorted(aList, someCells, anOrder) == aList

QuickSort(aList, someCells, anOrder) ==
    LET Before(j, k) ==
            \/ CompareCellCenterDistances(someCells[aList[j]],
                                          someCells[aList[k]]) < 0
            \/ /\ CompareCellCenterDistances(someCells[aList[j]],
                                             someCells[aList[k]]) = 0
               /\ IF anOrder = "forwards" THEN j <= k ELSE j >= k
        Rank(k) == Cardinality({ j \in 1..Len(aList) : Before(j, k) })
    IN  [ i \in 1..Len(aList) |->
            aList[CHOOSE k \in 1..Len(aList) : Rank(k) = i] ]

\* The cells with their distances from the camera.
CellsSeenFrom(someCells, aViewMatrix) ==
    [ i \in 1..Len(someCells) |->
        [ itsMatrix |-> someCells[i].itsMatrix,
          itsCellCenterInWorldSpace |-> someCells[i].itsCellCenterInWorldSpace,
          itsDistanceCameraToCellCenter |->
            VectorGeometricDistance(
                VectorTimesMatrix(someCells[i].itsCellCenterInWorldSpace,
                                  aViewMatrix)) ] ]

\* The indices of the cells the loop puts onto itsVisibleCells.
theAcceptedCells(someCells, aViewMatrix, anImageWidth, anImageHeight, aHorizonRadius, aDirichletDomainRadius, aSpaceType) ==
    { i \in 1..Len(someCells) :
        CellIsAccepted(
            VectorTimesMatrix(someCells[i].itsCellCenterInWorldSpace, aViewMatrix),
            VectorGeometricDistance(
                VectorTimesMatrix(someCells[i].itsCellCenterInWorldSpace,
                                  aViewMatrix)),
            anImageWidth, anImageHeight,
            aHorizonRadius + aDirichletDomainRadius,
            theAdjustedDirichletDomainRadiusOf(aSpaceType, aDirichletDomainRadius),
            aSpaceType) }

\* itsVisibleCells after the loop and the sort: the accepted cells in
\* front, what the array held behind them.
theVisibleCellsAfter(aHoneycomb, someCells, theAccepted, anOrder) ==
    QuickSort(Selected([ i \in 1..Len(someCells) |-> i ], theAccepted),
              someCells, anOrder)
    \o SubSeq(aHoneycomb.visibleCells, Cardinality(theAccepted) + 1,
              Len(aHoneycomb.visibleCells))

\* every accepted cell counted as plain
CullWithAllPlain(aHoneycomb, someCells, theAccepted, aViewMatrix, anOrder) ==
    [ aHoneycomb EXCEPT
        !.cells = someCells,
        !.itsNumVisibleCells = Cardinality(theAccepted),
        !.itsNumVisiblePlainCells = Cardinality(theAccepted),
        !.itsNumVisibleReflectedCells = 0,
        !.visibleCells =
            theVisibleCellsAfter(aHoneycomb, someCells, theAccepted, anOrder) ]

CullWith(aHoneycomb, someCells, theAccepted, aViewMatrix, anOrder) ==
    [ aHoneycomb EXCEPT
        !.cells = someCells,
        !.itsNumVisibleCells = Cardinality(theAccepted),
        !.itsNumVisiblePlainCells =
            Cardinality({ i \in theAccepted :
                someCells[i].itsMatrix.itsParity = aViewMatrix.itsParity }),
        !.itsNumVisibleReflectedCells =
            Cardinality({ i \in theAccepted :
                someCells[i].itsMatrix.itsParity # aViewMatrix.itsParity }),
        !.visibleCells =
            theVisibleCellsAfter(aHoneycomb, someCells, theAccepted, anOrder) ]

CullAndSortVisibleCells(aHoneycomb, aViewMatrix, anImageWidth, anImageHeight, aHorizonRadius, aDirichletDomainRadius, aSpaceType, anOrder) ==
    IF aHoneycomb.ptr = NULL THEN aHoneycomb
    ELSE CullWith(aHoneycomb,
                  CellsSeenFrom(aHoneycomb.cells, aViewMatrix),
                  theAcceptedCells(aHoneycomb.cells, aViewMatrix,
                                   anImageWidth, anImageHeight, aHorizonRadius,
                                   aDirichletDomainRadius, aSpaceType),
                  aViewMatrix, anOrder)

\* The build with START_OUTSIDE: the first cell alone, counted as plain.
SelectFirstCellOnly(aHoneycomb) ==
    [ aHoneycomb EXCEPT
        !.itsNumVisibleCells = 1,
        !.itsNumVisiblePlainCells = 1,
        !.itsNumVisibleReflectedCells = 0,
        !.visibleCells[1] = 1 ]

(***************************************************************************)
(* The ModelData.  Speeds are in hundredths, times in thousandths of a     *)
(* second, distances flown in 1e-5, the aperture in thousandths, the       *)
(* centerpiece's angle in 1e-7 radian; a radius is a fraction [n, d].      *)
(* The observer's placement is kept in two parts: the code's               *)
(* itsUserBodyPlacement is the forward translation by itsUserBodyAdvance   *)
(* (the increment of UpdateUserPlacement for that distance) times the      *)
(* matrix itsUserBodyPlacement of the model, whose entries are whole.      *)
(***************************************************************************)
USER_SPEED_INCREMENT == 2

\* 0.1 s
MAX_FRAME_PERIOD == 100

\* 0.1 radian per second: 1000 * 1e-7 radian per thousandth of a second
CENTERPIECE_ANGULAR_VELOCITY == 1000

\* 2*PI in 1e-7 radian
TWO_PI == 62831853

\* 0.5: 5 thousandths of aperture per hundredth of expansion factor
APERTURE_DILATION_CONSTANT == 5

SetUpModelData ==
    [ itsChangeCount |-> 0,
      itsSpaceType |-> "SpaceNone",
      itsDrawBackHemisphere |-> FALSE,
      itsThreeSphereFlag |-> FALSE,
      itsHorizonRadius |-> [ n |-> 0, d |-> 1 ],
      itsUserBodyPlacement |-> MatrixIdentity,
      itsUserBodyAdvance |-> 0,
      itsUserSpeed |-> 0,
      itsPrePauseUserSpeed |-> 0,
      itsDirichletDomain |-> NullDomain,
      itsHoneycomb |-> NullHoneycomb,
      itsAperture |-> 250,
      itsCenterpieceType |-> "CenterpieceEarth",
      itsRotationAngle |-> 0,
      itsDirichletWallsMeshNeedsRefresh |-> TRUE,
      itsVertexFigureMeshNeedsReplacement |-> TRUE,
      itsShowObserver |-> TRUE,
      itsShowColorCoding |-> FALSE,
      itsCliffordMode |-> "CliffordNone",
      itsShowVertexFigures |-> FALSE,
      itsFogFlag |-> TRUE ]

\* One GET_MEMORY call of the calls made from mem0 to mem1 was refused.
AllocationFailed(mem0, mem1) ==
    /\ mem0.failAt # 0
    /\ mem1.calls > mem0.calls
    /\ \/ mem0.calls < mem0.failAt /\ mem0.failAt <= mem1.calls
       \/ mem0.persist /\ mem1.calls > mem0.failAt

NoHoneycombCall ==
    [ called |-> FALSE, failed |-> FALSE, err |-> NoError, ptr |-> NULL,
      itsNullWrite |-> FALSE, kept |-> {} ]

\* A LoadGenerators call under way: the ModelData, the allocator, the
\* ErrorText, the two local lists, and what the call met on its way
\* (a loop that does not end, a location built over while it still held
\* something, the ConstructHoneycomb call).
LoadState(md, mem) ==
    [ md |-> md, mem |-> mem, err |-> NoError,
      theProvisionalHolonomyGroup |-> NullMatrixList,
      theFullHolonomyGroup |-> NullMatrixList,
      hang |-> FALSE, itsBuiltOver |-> FALSE, entered |-> TRUE,
      theHoneycombCall |-> NoHoneycombCall ]

\* FreeDirichletDomain(&md->itsDirichletDomain); FreeHoneycomb(&md->itsHoneycomb)
FreeDomainAndHoneycomb(L) ==
    [ L EXCEPT
        !.mem = FreeHoneycomb(
                    FreeDirichletDomain(CallState(L.md.itsDirichletDomain, L.mem)).mem,
                    L.md.itsHoneycomb),
        !.md.itsDirichletDomain = NullDomain,
        !.md.itsHoneycomb = NullHoneycomb ]

\* Delete any pre-existing Dirichlet domain and honeycomb, reset the
\* user's placement and speed.
ResetForLoad(L) ==
    [ FreeDomainAndHoneycomb(L) EXCEPT
        !.md.itsSpaceType = "SpaceNone",
        !.md.itsUserBodyPlacement = MatrixIdentity,
        !.md.itsUserBodyAdvance = 0,
        !.md.itsUserSpeed = 8 * USER_SPEED_INCREMENT ]

theHorizonRadiusOf(aSpaceType, aHyperbolicSpaceType) ==
    IF aSpaceType = "SpaceSpherical" THEN [ n |-> 315, d |-> 100 ]
    ELSE IF aSpaceType = "SpaceFlat" THEN [ n |-> 11, d |-> 1 ]
    ELSE IF aSpaceType = "SpaceHyperbolic"
        THEN IF aHyperbolicSpaceType # "HyperbolicSpaceGeneric"
             THEN [ n |-> 4, d |-> 1 ] ELSE [ n |-> 3, d |-> 1 ]
    ELSE [ n |-> 0, d |-> 1 ]

DetectAndSetHorizon(L, aGeneratorList, aHyperbolicSpaceType) ==
    LET r == DetectSpaceType(aGeneratorList)
    IN  [ L EXCEPT
            !.err = r.err,
            !.md.itsSpaceType = r.type,
            !.md.itsHorizonRadius =
                IF r.err # NoError THEN @
                ELSE theHorizonRadiusOf(r.type, aHyperbolicSpaceType) ]

\* The square of twice the outradius.  A NULL domain has outradius pi
\* (22/7); the vertices of a flat domain are at (x, y, z) / w.
FourTimesOutradiusSquared(aDirichletDomain) ==
    IF aDirichletDomain.ptr = NULL \/ aDirichletDomain.itsSpaceType # "SpaceFlat"
    THEN [ n |-> 4 * 22 * 22, d |-> 7 * 7 ]
    ELSE LET sq(a) == [ n |-> 4 * (a.v[1]*a.v[1] + a.v[2]*a.v[2] + a.v[3]*a.v[3]),
                        d |-> a.v[4] * a.v[4] ]
             far == CHOOSE a \in DOMAIN aDirichletDomain.V :
                        \A b \in DOMAIN aDirichletDomain.V :
                            sq(aDirichletDomain.V[b].itsRawPosition).n
                              * sq(aDirichletDomain.V[a].itsRawPosition).d
                            <= sq(aDirichletDomain.V[a].itsRawPosition).n
                              * sq(aDirichletDomain.V[b].itsRawPosition).d
         IN  sq(aDirichletDomain.V[far].itsRawPosition)

\* aWhich: "provisional" (the horizon radius alone), "full" (with twice the
\* outradius) or "padded" (with HYPERBOLIC_TILING_RADIUS_PADDING = 1.0)
LoadHolonomyGroup(L, aGeneratorList, aWhich) ==
    IF L.err # NoError \/ L.hang THEN L
    ELSE
    LET h == L.md.itsHorizonRadius
        r == ConstructHolonomyGroup(aGeneratorList,
                IF aWhich = "provisional" THEN [ h |-> h, q |-> [ n |-> 0, d |-> 1 ] ]
                ELSE IF aWhich = "full"
                    THEN [ h |-> h,
                           q |-> FourTimesOutradiusSquared(L.md.itsDirichletDomain) ]
                ELSE [ h |-> [ n |-> h.n + h.d, d |-> h.d ], q |-> [ n |-> 0, d |-> 1 ] ],
                IF aWhich = "provisional" THEN L.theProvisionalHolonomyGroup
                ELSE L.theFullHolonomyGroup,
                L.mem)
    IN  IF aWhich = "provisional"
        THEN [ L EXCEPT !.theProvisionalHolonomyGroup = r.list,
                        !.mem = r.mem, !.err = r.err ]
        ELSE [ L EXCEPT !.theFullHolonomyGroup = r.list,
                        !.mem = r.mem, !.err = r.err ]

\* s: what ConstructDirichletDomain left
AfterDomainCall(L, s) ==
    [ L EXCEPT !.md.itsDirichletDomain = s.dd, !.mem = s.mem, !.err = s.err,
               !.hang = s.hang,
               !.itsBuiltOver = @ \/ L.md.itsDirichletDomain.ptr # NULL ]

LoadDirichletDomain(L, aWhich) ==
    IF L.err # NoError \/ L.hang THEN L
    ELSE AfterDomainCall(L,
            ConstructDirichletDomain(
                IF aWhich = "provisional" THEN L.theProvisionalHolonomyGroup
                ELSE L.theFullHolonomyGroup,
                CallState(L.md.itsDirichletDomain, L.mem)))

FreeProvisional(L) ==
    IF L.err # NoError \/ L.hang THEN L
    ELSE [ L EXCEPT !.mem = FreeMatrixList(@, L.theProvisionalHolonomyGroup),
                    !.theProvisionalHolonomyGroup = NullMatrixList ]

LoadGroupAndDomain(L, aGeneratorList) ==
    IF L.err # NoError THEN L
    ELSE IF L.md.itsSpaceType # "SpaceHyperbolic"
    THEN LoadHolonomyGroup(
            FreeProvisional(
                LoadDirichletDomain(
                    LoadHolonomyGroup(L, aGeneratorList, "provisional"),
                    "provisional")),
            aGeneratorList, "full")
    ELSE LoadDirichletDomain(LoadHolonomyGroup(L, aGeneratorList, "padded"), "full")

LoadBackHemisphere(L) ==
    IF L.err # NoError \/ L.hang THEN L
    ELSE LET r == NeedsBackHemisphere(L.theFullHolonomyGroup, L.md.itsSpaceType)
         IN  [ L EXCEPT
                !.err = r.err,
                !.md.itsDrawBackHemisphere = IF r.err # NoError THEN @ ELSE r.flag,
                !.md.itsThreeSphereFlag =
                    IF r.err # NoError THEN @
                    ELSE Len(L.theFullHolonomyGroup.itsMatrices) = 1 ]

LoadHoneycomb(L) ==
    IF L.err # NoError \/ L.hang THEN L
    ELSE LET r == ConstructHoneycomb(L.theFullHolonomyGroup, L.md.itsDirichletDomain,
                                     L.md.itsHoneycomb, L.mem)
         IN  [ L EXCEPT
                !.md.itsHoneycomb = r.hc, !.mem = r.mem, !.err = r.err,
                !.itsBuiltOver = @ \/ L.md.itsHoneycomb.ptr # NULL,
                !.theHoneycombCall =
                    [ called |-> TRUE,
                      failed |-> AllocationFailed(L.mem, r.mem),
                      err |-> r.err, ptr |-> r.hc.ptr,
                      itsNullWrite |-> r.itsNullWrite,
                      kept |-> r.mem.live \ L.mem.live ] ]

FreeFullAndRefresh(L) ==
    IF L.err # NoError \/ L.hang THEN L
    ELSE [ L EXCEPT !.mem = FreeMatrixList(@, L.theFullHolonomyGroup),
                    !.theFullHolonomyGroup = NullMatrixList,
                    !.md.itsDirichletWallsMeshNeedsRefresh = TRUE,
                    !.md.itsVertexFigureMeshNeedsReplacement = TRUE ]

CleanUpLoadGenerators(L) ==
    IF L.hang THEN L
    ELSE LET K == IF L.err # NoError THEN FreeDomainAndHoneycomb(L) ELSE L
         IN  [ K EXCEPT
                !.md.itsChangeCount = @ + 1,
                !.mem = FreeMatrixList(
                            FreeMatrixList(@, K.theProvisionalHolonomyGroup),
                            K.theFullHolonomyGroup),
                !.theProvisionalHolonomyGroup = NullMatrixList,
                !.theFullHolonomyGroup = NullMatrixList ]

LoadGenerators(md, mem, aGeneratorList, aHyperbolicSpaceType) ==
    CleanUpLoadGenerators(
        FreeFullAndRefresh(
            LoadHoneycomb(
                LoadBackHemisphere(
                    LoadGroupAndDomain(
                        DetectAndSetHorizon(ResetForLoad(LoadState(md, mem)),
                                            aGeneratorList, aHyperbolicSpaceType),
                        aGeneratorList)))))

\* The call returned before it reached LoadGenerators.
NotLoaded(md, mem, e) ==
    [ LoadState(md, mem) EXCEPT !.err = e, !.entered = FALSE ]

\* rm: what ReadMatrices left
LoadGeneratorFileAfterRead(md, aText, rm) ==
    IF rm.err # NoError THEN NotLoaded(md, rm.mem, rm.err)
    ELSE [ LoadGenerators(md, rm.mem, rm.list, theHyperbolicSpaceTypeOf(aText))
            EXCEPT !.mem = FreeMatrixList(@, rm.list) ]

LoadGeneratorFile(md, mem, aFile) ==
    IF aFile.itsBOM \in {"UTF-16LE", "UTF-16BE"}
    THEN NotLoaded(md, mem, "The matrix file is in UTF-16 format.")
    ELSE LoadGeneratorFileAfterRead(md, aFile.itsText,
            ReadMatrices(RemoveComments(aFile.itsText), mem))

\* Free any allocated memory.  Leave other information untouched.
ShutDownModelData(md, mem) == FreeDomainAndHoneycomb(LoadState(md, mem))

\* << cos d, sin d >>, << 1, d >> or << cosh d, sinh d >> in 1e-5, for a
\* distance d in 1e-5: the entries m[3][3] and m[3][2] of theIncrement of
\* UpdateUserPlacement (series to the third order).
theIncrementOf(aSpaceType, d) ==
    IF aSpaceType = "SpaceSpherical"
        THEN << 100000 - (((d \div 100) * (d \div 100)) \div 20),
                d - (((d \div 100) * (d \div 100) * (d \div 100)) \div 60000) >>
    ELSE IF aSpaceType = "SpaceHyperbolic"
        THEN << 100000 + (((d \div 100) * (d \div 100)) \div 20),
                d + (((d \div 100) * (d \div 100) * (d \div 100)) \div 60000) >>
    ELSE << 100000, d >>

FaceValueOnThirdRow(aFace, aPlacement) ==
    aFace.itsHalfspace.v[1] * aPlacement.m[3][1]
      + aFace.itsHalfspace.v[2] * aPlacement.m[3][2]
      + aFace.itsHalfspace.v[3] * aPlacement.m[3][3]
      + aFace.itsHalfspace.v[4] * aPlacement.m[3][4]

\* The face's halfspace on the last row of theIncrement * aPlacement, the
\* observer's position a distance d ahead of aPlacement.
FaceValueAhead(aFace, aPlacement, aSpaceType, d) ==
    [ n |-> theIncrementOf(aSpaceType, d)[2] * FaceValueOnThirdRow(aFace, aPlacement)
          + theIncrementOf(aSpaceType, d)[1] * FaceValue(aFace, aPlacement).n,
      d |-> 100000 * aFace.itsHalfspace.d ]

\* StayInDirichletDomain on the placement a distance d ahead of r.placement:
\* the restoring matrices multiply on the right, the advance on the left.
RECURSIVE StayAheadFrom(_, _, _, _, _)
StayAheadFrom(dd, r, aSpaceType, d, k) ==
    IF k > Len(dd.itsFaceList) THEN r
    ELSE IF ExceedsEps(FaceValueAhead(dd.F[dd.itsFaceList[k]], r.placement,
                                      aSpaceType, d),
                       RESTORING_EPSILON_DEN)
        THEN StayAheadFrom(dd,
                [ placement |-> theRestoredPlacement(r.placement,
                                                     dd.F[dd.itsFaceList[k]]),
                  mults |-> r.mults + 1 ],
                aSpaceType, d, k + 1)
    ELSE StayAheadFrom(dd, r, aSpaceType, d, k + 1)

StayAhead(dd, aPlacement, aSpaceType, d) ==
    IF dd.ptr = NULL THEN [ placement |-> aPlacement, mults |-> 0 ]
    ELSE StayAheadFrom(dd, [ placement |-> aPlacement, mults |-> 0 ],
                       aSpaceType, d, 1)

SimulationWantsUpdates(md) ==
    /\ md.itsSpaceType # "SpaceNone"
    /\ \/ md.itsUserSpeed # 0
       \/ md.itsCenterpieceType # "CenterpieceNone"

theFramePeriodUnlimited(aFramePeriod) == aFramePeriod

\* if (aFramePeriod > MAX_FRAME_PERIOD) aFramePeriod = MAX_FRAME_PERIOD;
theFramePeriodOf(aFramePeriod) ==
    IF aFramePeriod > MAX_FRAME_PERIOD THEN MAX_FRAME_PERIOD ELSE aFramePeriod

UpdateCenterpieceRotation(md, aFramePeriod) ==
    [ md EXCEPT
        !.itsRotationAngle =
            IF @ - aFramePeriod * CENTERPIECE_ANGULAR_VELOCITY < 0
            THEN @ - aFramePeriod * CENTERPIECE_ANGULAR_VELOCITY + TWO_PI
            ELSE @ - aFramePeriod * CENTERPIECE_ANGULAR_VELOCITY ]

\* d = md->itsUserSpeed * aFramePeriod
theDistanceOf(md, aFramePeriod) ==
    IF md.itsSpaceType \in { "SpaceSpherical", "SpaceFlat", "SpaceHyperbolic" }
    THEN md.itsUserSpeed * aFramePeriod
    ELSE 0

\* FastGramSchmidt leaves a matrix with orthonormal rows as it is.
UpdateUserPlacement(md, aFramePeriod) ==
    [ md EXCEPT
        !.itsUserBodyAdvance = @ + theDistanceOf(md, aFramePeriod),
        !.itsUserBodyPlacement =
            StayAhead(md.itsDirichletDomain, @, md.itsSpaceType,
                      md.itsUserBodyAdvance + theDistanceOf(md, aFramePeriod)
                     ).placement ]

SimulationUpdate(md, aFramePeriod) ==
    [ UpdateUserPlacement(
          UpdateCenterpieceRotation(md, theFramePeriodOf(aFramePeriod)),
          theFramePeriodOf(aFramePeriod))
      EXCEPT !.itsChangeCount = @ + 1 ]

\* The rotation of GestureRotate by aQuarterTurns quarter turns
\* counterclockwise: c = cos, s = sin of the angle.
theRotationBy(aQuarterTurns) ==
    LET c == << 1, 0, -1, 0 >>[(aQuarterTurns % 4) + 1]
        s == << 0, 1, 0, -1 >>[(aQuarterTurns % 4) + 1]
    IN  Mat(<< c, -s, 0, 0 >>, << s, c, 0, 0 >>, << 0, 0, 1, 0 >>, << 0, 0, 0, 1 >>,
            "ImagePositive")

\* The rotation leaves the z axis fixed, so it passes the advance and
\* multiplies the whole part of the placement.
GestureRotate(md, aQuarterTurns) ==
    [ md EXCEPT
        !.itsUserBodyPlacement = MatrixProduct(theRotationBy(aQuarterTurns), @),
        !.itsChangeCount = @ + 1 ]

GesturePinchUnclamped(md, anExpansionFactor) ==
    [ md EXCEPT
        !.itsAperture = @ + APERTURE_DILATION_CONSTANT * (anExpansionFactor - 100),
        !.itsDirichletWallsMeshNeedsRefresh = TRUE,
        !.itsChangeCount = @ + 1 ]

\* anExpansionFactor in hundredths
GesturePinch(md, anExpansionFactor) ==
    [ md EXCEPT
        !.itsAperture =
            IF @ + APERTURE_DILATION_CONSTANT * (anExpansionFactor - 100) < 0 THEN 0
            ELSE IF @ + APERTURE_DILATION_CONSTANT * (anExpansionFactor - 100) > 1000
                THEN 1000
            ELSE @ + APERTURE_DILATION_CONSTANT * (anExpansionFactor - 100),
        !.itsDirichletWallsMeshNeedsRefresh = TRUE,
        !.itsChangeCount = @ + 1 ]

GestureTapForgetful(md) ==
    IF md.itsUserSpeed # 0
    THEN [ md EXCEPT !.itsUserSpeed = 0 ]
    ELSE [ md EXCEPT !.itsUserSpeed = md.itsPrePauseUserSpeed ]

GestureTap(md) ==
    IF md.itsUserSpeed # 0
    THEN [ md EXCEPT !.itsPrePauseUserSpeed = md.itsUserSpeed, !.itsUserSpeed = 0 ]
    ELSE [ md EXCEPT !.itsUserSpeed = md.itsPrePauseUserSpeed,
                     !.itsPrePauseUserSpeed = 0 ]

(***************************************************************************)
(* CurvedSpacesOptions.c                                                   *)
(***************************************************************************)
SetCenterpiece(md, aCenterpieceChoice) ==
    [ md EXCEPT !.itsCenterpieceType = aCenterpieceChoice,
                !.itsChangeCount = @ + 1 ]

SetShowObserver(md, aShowObserverChoice) ==
    [ md EXCEPT !.itsShowObserver = aShowObserverChoice,
                !.itsChangeCount = @ + 1 ]

SetShowColorCoding(md, aShowColorCodingChoice) ==
    [ md EXCEPT !.itsShowColorCoding = aShowColorCodingChoice,
                !.itsDirichletWallsMeshNeedsRefresh = TRUE,
                !.itsChangeCount = @ + 1 ]

SetShowCliffordParallels(md, aCliffordMode) ==
    [ md EXCEPT !.itsCliffordMode = aCliffordMode,
                !.itsChangeCount = @ + 1 ]

SetShowVertexFigures(md, aShowVertexFiguresChoice) ==
    [ md EXCEPT !.itsShowVertexFigures = aShowVertexFiguresChoice,
                !.itsChangeCount = @ + 1 ]

SetFogFlagUncounted(md, aFogFlag) ==
    [ md EXCEPT !.itsFogFlag = aFogFlag ]

SetFogFlag(md, aFogFlag) ==
    [ md EXCEPT !.itsFogFlag = aFogFlag,
                !.itsChangeCount = @ + 1 ]

(***************************************************************************)
(* MouseMoved.  A DisplayPoint is [itsX, itsY, itsViewWidth,               *)
(* itsViewHeight], a DisplayPointMotion [itsDeltaX, itsDeltaY,             *)
(* itsViewWidth, itsViewHeight], in whole pixels.                          *)
(***************************************************************************)
theViewIsUsable(aMouseLocation, aMouseMotion) ==
    ~ \/ aMouseMotion.itsViewWidth <= 0
      \/ aMouseMotion.itsViewHeight <= 0
      \/ aMouseMotion.itsViewWidth # aMouseLocation.itsViewWidth
      \/ aMouseMotion.itsViewHeight # aMouseLocation.itsViewHeight

\* aPixels as a multiple of the characteristic size, in 1e-5.
InCharacteristicSizes(aPixels, aMouseMotion) ==
    (100000 * aPixels
        * CharacteristicViewSize(aMouseMotion.itsViewWidth,
                                 aMouseMotion.itsViewHeight).d)
    \div CharacteristicViewSize(aMouseMotion.itsViewWidth,
                                aMouseMotion.itsViewHeight).n

\* atan in eighths of a turn, for the tangents -1, 0 and 1 (in 1e-5).
AtanInEighths(x) ==
    IF x = 100000 THEN 1 ELSE IF x = -100000 THEN -1 ELSE 0

\* dTheta = atan(x + dx) - atan(x), in quarter turns
theQuarterTurnsOf(aMouseLocation, aMouseMotion) ==
    ( AtanInEighths(
          InCharacteristicSizes(2 * aMouseLocation.itsX - aMouseLocation.itsViewWidth
                                    + 2 * aMouseMotion.itsDeltaX, aMouseMotion)
          \div 2)
      - AtanInEighths(
          InCharacteristicSizes(2 * aMouseLocation.itsX - aMouseLocation.itsViewWidth,
                                aMouseMotion)
          \div 2) ) \div 2

\* The motions along and about the z axis, and the translations of flat
\* space across it by whole units: those that pass the advance.  The
\* rotations about the x and y axes are not modelled.
\* MatrixTranslation(0, 0, dz) is theIncrement of UpdateUserPlacement for
\* the distance dz, MatrixRotation(0, 0, dTheta) theRotation of
\* GestureRotate for the angle dTheta.  FastGramSchmidt leaves a matrix
\* with orthonormal rows as it is.
MouseMoved(md, aMouseLocation, aMouseMotion, aTranslationFlag, aZAxisFlag) ==
    IF ~ theViewIsUsable(aMouseLocation, aMouseMotion) THEN md
    ELSE IF aTranslationFlag /\ aZAxisFlag
        THEN [ md EXCEPT
                !.itsUserBodyAdvance =
                    @ - InCharacteristicSizes(aMouseMotion.itsDeltaY, aMouseMotion),
                !.itsChangeCount = @ + 1 ]
    ELSE IF aTranslationFlag
        THEN [ md EXCEPT
                !.itsUserBodyPlacement =
                    MatrixProduct(
                        MatrixTranslation(
                            - (InCharacteristicSizes(aMouseMotion.itsDeltaX,
                                                     aMouseMotion) \div 100000),
                            - (InCharacteristicSizes(aMouseMotion.itsDeltaY,
                                                     aMouseMotion) \div 100000),
                            0),
                        @),
                !.itsChangeCount = @ + 1 ]
    ELSE CASE aZAxisFlag ->
        [ md EXCEPT
            !.itsUserBodyPlacement =
                MatrixProduct(
                    theRotationBy(theQuarterTurnsOf(aMouseLocation, aMouseMotion)),
                    @),
            !.itsChangeCount = @ + 1 ]

(***************************************************************************)
(* The generator files the model loads                                     *)
(***************************************************************************)
\* The reflection of hyperbolic space in the plane with unit normal
\* (3, 2, 2, 4): it carries the basepoint to (24, 16, 16, 33).
MatrixHyperbolicFarMirror ==
    LET n == <<3, 2, 2, 4>>
        J(j) == IF j = 4 THEN -1 ELSE 1
    IN  [ m |-> [ i \in 1..4 |-> [ j \in 1..4 |->
                    (IF i = j THEN 1 ELSE 0) - 2 * J(i) * n[i] * n[j] ] ],
          itsParity |-> "ImageNegative" ]

FileOf(aBOM, aComment, aMatrices) ==
    [ itsBOM |-> aBOM,
      itsText |-> <<Comment(aComment)>> \o
                  FlattenText([ k \in 1..Len(aMatrices) |-> MatrixText(aMatrices[k]) ]) ]

LensFile == FileOf("none", 0, <<LensQuarterTurn>>)
ThreeSphereFile == FileOf("UTF-8", 0, <<>>)
ChimneyFile == FileOf("none", 0, <<MatrixTranslation(8,0,0), MatrixTranslation(0,8,0)>>)
FarTorusFile ==
    FileOf("UTF-8", 0, << MatrixTranslation(20,0,0), MatrixTranslation(0,20,0),
                          MatrixTranslation(0,0,20) >>)
FarMirrorFile == FileOf("none", 0, <<MatrixHyperbolicFarMirror>>)
FarMirrorDodecahedronFile == FileOf("none", 1, <<MatrixHyperbolicFarMirror>>)
InconsistentFile == FileOf("none", 0, <<LensQuarterTurn, MatrixTranslation(8,0,0)>>)
UnneededIdentityFile == FileOf("none", 0, <<MatrixIdentity, LensQuarterTurn>>)
UTF16File == [ LensFile EXCEPT !.itsBOM = "UTF-16LE" ]
UTF16BigEndianFile == [ ChimneyFile EXCEPT !.itsBOM = "UTF-16BE" ]
OtherTextFile == [ LensFile EXCEPT !.itsText = SubSeq(@, 1, 9) \o <<OtherText>> ]
ShortFile == [ LensFile EXCEPT !.itsText = SubSeq(@, 1, 16) ]

GeneratorFiles ==
    { LensFile, ThreeSphereFile, ChimneyFile, FarTorusFile, FarMirrorFile,
      FarMirrorDodecahedronFile, InconsistentFile, UnneededIdentityFile,
      UTF16File, UTF16BigEndianFile, OtherTextFile, ShortFile }

(***************************************************************************)
(* State                                                                   *)
(*                                                                         *)
(* One run of ConstructDirichletDomain, taken a call at a time:            *)
(*   aHolonomyGroup   the input list                                       *)
(*   call             [dd, mem, err, hang, ret] of the run                 *)
(*   phase            "Entry", "Seeded", "Cutting", "Success", "Error",    *)
(*                    "Hung"                                               *)
(*   theIndex         index of the next matrix of the main loop (1-based)  *)
(*   theSeed          "none", "banana" or "lens"                           *)
(*   enteredWithNull  *aDirichletDomain was NULL on entry                  *)
(*   theLastCut       the matrix of the latest IntersectWithHalfspace      *)
(*                    call that returned success, the mesh before it and   *)
(*                    the mesh as its two cutting loops left it            *)
(*   theRenorm        [aSpaceType, thePlacement, thePerturbed, theBefore,  *)
(*                    aMatrix, theApplications]: a placement in round, the *)
(*                    placement out of round by some noise, the matrix     *)
(*                    before the last FastGramSchmidt and after it, and    *)
(*                    the number of times it was applied                   *)
(*   theMesh          [walls, figures]: what MakeDirichletMesh and         *)
(*                    MakeVertexFigureMesh returned for the finished       *)
(*                    domain                                               *)
(* and an object kept in the finished domain by StayInDirichletDomain:     *)
(*   itsPlacement     the object's placement                               *)
(*   theCrossings     faces crossed on the way out of the domain           *)
(*   theStays         consecutive StayInDirichletDomain calls so far       *)
(*   theStay          [before, mults] of the latest call                   *)
(* and a session of the program:                                           *)
(*   md               the ModelData                                        *)
(*   memory           the allocator                                        *)
(*   theLast          the latest operation on the ModelData: its name,     *)
(*                    the kind of file, and what a load returned, met on   *)
(*                    its way and left as it was; the frame period of a    *)
(*                    SimulationUpdate                                     *)
(* and a honeycomb at render time:                                         *)
(*   honeycomb        the Honeycomb handed to CullAndSortVisibleCells      *)
(*   theCull          the arguments of the latest call on it               *)
(***************************************************************************)
VARIABLES aHolonomyGroup, call, phase, theIndex, theSeed, enteredWithNull,
          theLastCut, theMesh, itsPlacement, theCrossings, theStays, theStay,
          theRenorm,
          md, memory, theLast,
          honeycomb, theCull

modelVars == << md, memory, theLast >>

dirichletVars == << aHolonomyGroup, call, phase, theIndex, theSeed,
                    enteredWithNull, theLastCut, theMesh >>

stayVars == << itsPlacement, theCrossings, theStays, theStay >>

cullVars == << honeycomb, theCull >>

\* Bounds
MaxFailAt == 30
MaxCrossings == 2
MaxChangeCount == 2

\* The allocator as a call finds it: of the GET_MEMORY calls the call is
\* about to make, number aFailAt fails (0: none).
Inject(mem, aFailAt, aPersist) ==
    [ mem EXCEPT !.calls = 0, !.failAt = aFailAt, !.persist = aPersist ]

\* The allocator between calls.
Settle(mem) == Inject(mem, 0, FALSE)

NoCut ==
    [ made |-> FALSE, matrix |-> MatrixIdentity, before |-> NullDomain,
      split |-> NullDomain ]

FixedIdentity ==
    << << FixedOne, 0, 0, 0 >>, << 0, FixedOne, 0, 0 >>,
       << 0, 0, FixedOne, 0 >>, << 0, 0, 0, FixedOne >> >>

\* No matrix is being renormalized.
NoRenorm ==
    [ aSpaceType |-> "SpaceNone", thePlacement |-> FixedIdentity,
      thePerturbed |-> FixedIdentity, theBefore |-> FixedIdentity,
      aMatrix |-> FixedIdentity, theApplications |-> 0 ]

NoMeshes == [ walls |-> NoMesh, figures |-> NoMesh ]

NoStay == [ before |-> MatrixIdentity, mults |-> 0 ]

\* A location that already holds a domain.
OccupiedAddress == CallerList + 1

\* What is wrong with a file before any matrix is read from it.
IsUTF16(aFile) == aFile.itsBOM \in {"UTF-16LE", "UTF-16BE"}
HasOtherText(aFile) == \E k \in 1..Len(aFile.itsText) : aFile.itsText[k] = OtherText
HasBrokenCount(aFile) == Len(RemoveComments(aFile.itsText)) % 16 # 0

FileKind(aFile) ==
    [ isUTF16 |-> IsUTF16(aFile), hasOtherText |-> HasOtherText(aFile),
      hasBrokenCount |-> HasBrokenCount(aFile) ]

NoFile == [ itsBOM |-> "none", itsText |-> <<>> ]

\* theLast after an operation that is not a load
Operation(aName) ==
    [ op |-> aName, theFileKind |-> FileKind(NoFile), err |-> NoError,
      entered |-> FALSE, itsBuiltOver |-> FALSE, itsLoadedSpaceIsUntouched |-> TRUE,
      hadSpace |-> FALSE,
      theHoneycombCall |-> NoHoneycombCall, fault |-> "none",
      aFramePeriod |-> 0 ]

\* The loaded space of md1 is that of md0.
SameLoadedSpace(md0, md1) ==
    /\ md1.itsSpaceType = md0.itsSpaceType
    /\ md1.itsDirichletDomain = md0.itsDirichletDomain
    /\ md1.itsHoneycomb = md0.itsHoneycomb
    /\ md1.itsUserBodyPlacement = md0.itsUserBodyPlacement
    /\ md1.itsUserBodyAdvance = md0.itsUserBodyAdvance
    /\ md1.itsUserSpeed = md0.itsUserSpeed

ModelDataStart ==
    /\ md = SetUpModelData
    /\ memory = NewMemory({}, 0, FALSE)
    /\ theLast = Operation("SetUpModelData")

\* No honeycomb is being rendered.
NoCull ==
    [ op |-> "none", aViewMatrix |-> MatrixIdentity,
      anImageWidth |-> 0, anImageHeight |-> 0,
      aHorizonRadius |-> 0, aDirichletDomainRadius |-> 0,
      aSpaceType |-> "SpaceNone" ]

CullIdle ==
    /\ honeycomb = NullHoneycomb
    /\ theCull = NoCull

DirichletInit ==
    /\ ModelDataStart
    /\ CullIdle
    /\ aHolonomyGroup \in HolonomyGroups
    /\ enteredWithNull \in BOOLEAN
    /\ call = IF enteredWithNull
              THEN CallState(NullDomain, NewMemory({CallerList}, 0, FALSE))
              ELSE CallState(NewDomain(OccupiedAddress),
                             NewMemory({CallerList, OccupiedAddress}, 0, FALSE))
    /\ phase = "Entry"
    /\ theIndex = 1
    /\ theSeed = "none"
    /\ theLastCut = NoCut
    /\ theMesh = NoMeshes
    /\ theRenorm = NoRenorm
    /\ itsPlacement = MatrixIdentity
    /\ theCrossings = 0
    /\ theStays = 0
    /\ theStay = NoStay

\* Where a part of ConstructDirichletDomain leaves the run.
PhaseAfter(s, aPhase) ==
    IF s.hang THEN "Hung"
    ELSE IF s.err # NoError THEN "Error"
    ELSE IF s.ret THEN "Success"
    ELSE aPhase

\* goto CleanUpConstructDirichletDomain when a part reported an error;
\* a direct return leaves everything as it is.
Leave(s) ==
    LET t == IF s.ret \/ s.hang THEN s ELSE CleanUpConstructDirichletDomain(s)
    IN  [ t EXCEPT !.mem = Settle(@) ]

\* Entry to ConstructDirichletDomain: the argument checks and the seed.
EnterAndSeed ==
    /\ phase = "Entry"
    /\ \E f \in 0..MaxFailAt :
        \E s \in { ConstructSeedPolyhedron(aHolonomyGroup,
                    [ call EXCEPT !.mem = Inject(@, f, FALSE) ]) } :
            /\ call' = Leave(s)
            /\ phase' = PhaseAfter(s, "Seeded")
            /\ theSeed' =
                 IF s.ret \/ s.err # NoError \/ s.hang THEN "none"
                 ELSE IF theThirdIndexOf(aHolonomyGroup)
                            <= Len(aHolonomyGroup.itsMatrices)
                      THEN "banana" ELSE "lens"
    /\ UNCHANGED << aHolonomyGroup, theIndex, enteredWithNull, theLastCut >>
    /\ UNCHANGED theMesh
    /\ UNCHANGED stayVars
    /\ UNCHANGED modelVars
    /\ UNCHANGED cullVars
    /\ UNCHANGED theRenorm

\* The fourth hemisphere that turns a banana into a tetrahedron.
CutFourth ==
    /\ phase = "Seeded"
    /\ \E f \in 0..MaxFailAt :
        \E s \in { ConstructFourthHalfspace(aHolonomyGroup,
                    [ call EXCEPT !.mem = Inject(@, f, FALSE) ]) } :
            /\ call' = Leave(s)
            /\ phase' = PhaseAfter(s, "Cutting")
            /\ theLastCut' =
                 IF theSeed = "banana" /\ s.err = NoError /\ ~ s.hang
                 THEN [ made |-> TRUE,
                        matrix |-> aHolonomyGroup.itsMatrices[
                                    theFourthIndexOf(aHolonomyGroup,
                                        theThirdIndexOf(aHolonomyGroup), call.dd)],
                        before |-> call.dd,
                        split |-> theSplitPolyhedron(
                            [ call EXCEPT !.mem = Inject(@, f, FALSE) ],
                            aHolonomyGroup.itsMatrices[
                                theFourthIndexOf(aHolonomyGroup,
                                    theThirdIndexOf(aHolonomyGroup), call.dd)]) ]
                 ELSE theLastCut
    /\ UNCHANGED << aHolonomyGroup, theIndex, theSeed, enteredWithNull >>
    /\ UNCHANGED theMesh
    /\ UNCHANGED stayVars
    /\ UNCHANGED modelVars
    /\ UNCHANGED cullVars
    /\ UNCHANGED theRenorm

\* One pass of the main loop: IntersectWithHalfspace with matrix theIndex.
CutNext ==
    /\ phase = "Cutting"
    /\ theIndex <= Len(aHolonomyGroup.itsMatrices)
    /\ \E f \in 0..MaxFailAt :
        \E s \in { IntersectWithHalfspace(
                    [ call EXCEPT !.mem = Inject(@, f, FALSE) ],
                    aHolonomyGroup.itsMatrices[theIndex]) } :
            /\ call' = Leave(s)
            /\ phase' = PhaseAfter(s, "Cutting")
            /\ theLastCut' =
                 IF s.err = NoError /\ ~ s.hang
                 THEN [ made |-> TRUE,
                        matrix |-> aHolonomyGroup.itsMatrices[theIndex],
                        before |-> call.dd,
                        split |-> theSplitPolyhedron(
                            [ call EXCEPT !.mem = Inject(@, f, FALSE) ],
                            aHolonomyGroup.itsMatrices[theIndex]) ]
                 ELSE theLastCut
    /\ theIndex' = theIndex + 1
    /\ UNCHANGED << aHolonomyGroup, theSeed, enteredWithNull >>
    /\ UNCHANGED theMesh
    /\ UNCHANGED stayVars
    /\ UNCHANGED modelVars
    /\ UNCHANGED cullVars
    /\ UNCHANGED theRenorm

\* After the loop: space type, normalizations, face colors, vertex figures.
Finish ==
    /\ phase = "Cutting"
    /\ theIndex > Len(aHolonomyGroup.itsMatrices)
    /\ \E s \in { ConstructFinish(aHolonomyGroup, call) } :
           /\ call' = Leave(s)
           /\ phase' = PhaseAfter(s, "Success")
    /\ UNCHANGED << aHolonomyGroup, theIndex, theSeed, enteredWithNull, theLastCut >>
    /\ UNCHANGED theMesh
    /\ UNCHANGED stayVars
    /\ UNCHANGED modelVars
    /\ UNCHANGED cullVars
    /\ UNCHANGED theRenorm

\* Every face value of the placement is at most RESTORING_EPSILON.
InsideDomain(dd, aPlacement) ==
    \A f \in DOMAIN dd.F :
        ~ ExceedsEps(FaceValue(dd.F[f], aPlacement), RESTORING_EPSILON_DEN)

\* The object moves through a face of the cell it is in, into the
\* neighbouring cell.
CrossFace ==
    /\ phase = "Success"
    /\ call.dd.ptr # NULL
    /\ theStays = 0
    /\ theCrossings < MaxCrossings
    /\ \E f \in DOMAIN call.dd.F :
        itsPlacement' = MatrixProduct(itsPlacement, call.dd.F[f].itsMatrix)
    /\ theCrossings' = theCrossings + 1
    /\ UNCHANGED << theStays, theStay >>
    /\ UNCHANGED dirichletVars
    /\ UNCHANGED modelVars
    /\ UNCHANGED cullVars
    /\ UNCHANGED theRenorm

Stay ==
    /\ phase = "Success"
    /\ theStays < 2
    /\ \E r \in { StayInDirichletDomain(call.dd, itsPlacement) } :
           /\ itsPlacement' = r.placement
           /\ theStay' = [ before |-> itsPlacement, mults |-> r.mults ]
    /\ theStays' = theStays + 1
    /\ UNCHANGED theCrossings
    /\ UNCHANGED dirichletVars
    /\ UNCHANGED modelVars
    /\ UNCHANGED cullVars
    /\ UNCHANGED theRenorm

\* The renderer asks for the mesh of the walls of the finished domain.
MakeWalls ==
    /\ phase = "Success"
    /\ call.dd.ptr # NULL
    /\ ~ theMesh.walls.made
    /\ theMesh' = [ theMesh EXCEPT !.walls = MakeDirichletMesh(call.dd) ]
    /\ UNCHANGED << aHolonomyGroup, call, phase, theIndex, theSeed,
                    enteredWithNull, theLastCut >>
    /\ UNCHANGED stayVars
    /\ UNCHANGED modelVars
    /\ UNCHANGED cullVars
    /\ UNCHANGED theRenorm

\* The renderer asks for the mesh of the vertex figures.
MakeFigures ==
    /\ phase = "Success"
    /\ call.dd.ptr # NULL
    /\ ~ theMesh.figures.made
    /\ theMesh' = [ theMesh EXCEPT !.figures = MakeVertexFigureMesh(call.dd) ]
    /\ UNCHANGED << aHolonomyGroup, call, phase, theIndex, theSeed,
                    enteredWithNull, theLastCut >>
    /\ UNCHANGED stayVars
    /\ UNCHANGED modelVars
    /\ UNCHANGED cullVars
    /\ UNCHANGED theRenorm

vars == << aHolonomyGroup, call, phase, theIndex, theSeed, enteredWithNull,
           theLastCut, theMesh, theRenorm, itsPlacement, theCrossings, theStays, theStay,
           md, memory, theLast, honeycomb, theCull >>

DirichletNext ==
    \/ EnterAndSeed
    \/ CutFourth
    \/ CutNext
    \/ Finish
    \/ CrossFace
    \/ Stay
    \/ MakeWalls
    \/ MakeFigures

DirichletSpec == DirichletInit /\ [][DirichletNext]_vars

(***************************************************************************)
(* A session: SetUpModelData, then generator files loaded one after        *)
(* another, the observer pausing in between, and ShutDownModelData at the  *)
(* end.                                                                    *)
(***************************************************************************)
ModelDataInit ==
    /\ ModelDataStart
    /\ CullIdle
    /\ aHolonomyGroup = NullMatrixList
    /\ enteredWithNull = TRUE
    /\ call = CallState(NullDomain, NewMemory({CallerList}, 0, FALSE))
    /\ phase = "Entry"
    /\ theIndex = 1
    /\ theSeed = "none"
    /\ theLastCut = NoCut
    /\ theMesh = NoMeshes
    /\ theRenorm = NoRenorm
    /\ itsPlacement = MatrixIdentity
    /\ theCrossings = 0
    /\ theStays = 0
    /\ theStay = NoStay

\* The time since the last frame: none, a frame of 25 per second, the
\* longest frame taken whole, a stall.
FramePeriods == { 0, 40, 100, 250 }

\* The session goes on: it was not shut down and did not stop in a fault.
Running == theLast.op # "ShutDownModelData" /\ theLast.fault = "none"

\* The call gets as far as LoadGenerators, which adds to the change count.
ReachesLoadGenerators(aFile, mem) ==
    /\ ~ IsUTF16(aFile)
    /\ ReadMatrices(RemoveComments(aFile.itsText), mem).err = NoError

\* LoadGeneratorFile.  A cell written through a NULL itsCells is undefined
\* behaviour: the program stops there ("stopped"), or the write is lost
\* and the call goes on ("lost").
Load ==
    /\ Running
    /\ \E aFile \in GeneratorFiles : \E f \in 0..MaxFailAt :
        /\ \/ md.itsChangeCount < MaxChangeCount
           \/ ~ ReachesLoadGenerators(aFile, Inject(memory, f, FALSE))
        /\ \E L \in { LoadGeneratorFile(md, Inject(memory, f, FALSE), aFile) } :
            /\ ~ L.hang
            /\ \E theFault \in IF L.theHoneycombCall.itsNullWrite
                               THEN {"stopped", "lost"} ELSE {"none"} :
                /\ md' = L.md
                /\ memory' = Settle(L.mem)
                /\ theLast' =
                    [ op |-> "LoadGeneratorFile", theFileKind |-> FileKind(aFile),
                      err |-> L.err, entered |-> L.entered,
                      itsBuiltOver |-> L.itsBuiltOver,
                      itsLoadedSpaceIsUntouched |-> SameLoadedSpace(md, L.md),
                      hadSpace |-> /\ md.itsDirichletDomain.ptr # NULL
                                   /\ md.itsHoneycomb.ptr # NULL,
                      theHoneycombCall |-> L.theHoneycombCall,
                      fault |-> IF theFault = "stopped" THEN "stopped" ELSE "none",
                      aFramePeriod |-> 0 ]
    /\ UNCHANGED dirichletVars
    /\ UNCHANGED stayVars
    /\ UNCHANGED cullVars
    /\ UNCHANGED theRenorm

Tap ==
    /\ Running
    /\ md' = GestureTap(md)
    /\ theLast' = Operation("GestureTap")
    /\ UNCHANGED memory
    /\ UNCHANGED dirichletVars
    /\ UNCHANGED stayVars
    /\ UNCHANGED cullVars
    /\ UNCHANGED theRenorm

ShutDown ==
    /\ Running
    /\ \E L \in { ShutDownModelData(md, memory) } :
        /\ md' = L.md
        /\ memory' = L.mem
    /\ theLast' = Operation("ShutDownModelData")
    /\ UNCHANGED dirichletVars
    /\ UNCHANGED stayVars
    /\ UNCHANGED cullVars
    /\ UNCHANGED theRenorm

ModelDataNext ==
    \/ Load
    \/ Tap
    \/ ShutDown

ModelDataSpec == ModelDataInit /\ [][ModelDataNext]_vars

(***************************************************************************)
(* A session at the controls: a space is opened, the options are set, the  *)
(* observer turns, pinches the walls open and shut, pauses, drags the      *)
(* mouse, and the frames go by.                                            *)
(***************************************************************************)
OpenedFiles == { LensFile, FarTorusFile, FarMirrorFile, InconsistentFile, ShortFile }

CenterpieceChoices == { "CenterpieceNone", "CenterpieceGalaxy" }

CliffordModes == { "CliffordBicolor", "CliffordOneSet" }

\* Quarter turns of a rotation gesture: none, one to the left, one to the right.
RotationGestures == { 0, 1, 3 }

\* Expansion factors of a pinch, in hundredths: shut at once, halved, a
\* tenth wider, four times as wide.
ExpansionFactors == { 0, 50, 110, 400 }

\* The pointer at 45 degrees left of the middle of a view 200 by 200.
MouseLocations ==
    { [ itsX |-> 0, itsY |-> 100, itsViewWidth |-> 200, itsViewHeight |-> 200 ] }

\* The pointer stays, crosses the view to the right, goes a pixel up, half
\* a view to the right, 90 pixels down (0.9 characteristic sizes); and a
\* motion in a view of no size.
MouseMotions ==
    { [ itsDeltaX |-> 0, itsDeltaY |-> 0, itsViewWidth |-> 200, itsViewHeight |-> 200 ],
      [ itsDeltaX |-> 0, itsDeltaY |-> -90, itsViewWidth |-> 200, itsViewHeight |-> 200 ],
      [ itsDeltaX |-> 200, itsDeltaY |-> 0, itsViewWidth |-> 200, itsViewHeight |-> 200 ],
      [ itsDeltaX |-> 0, itsDeltaY |-> 1, itsViewWidth |-> 200, itsViewHeight |-> 200 ],
      [ itsDeltaX |-> 100, itsDeltaY |-> 0, itsViewWidth |-> 200, itsViewHeight |-> 200 ],
      [ itsDeltaX |-> 200, itsDeltaY |-> 1, itsViewWidth |-> 0, itsViewHeight |-> 0 ] }

\* MouseMoved changes the ModelData only in a usable view.
MouseCounts(aMouseLocation, aMouseMotion) ==
    theViewIsUsable(aMouseLocation, aMouseMotion)

\* LoadGeneratorFile with every allocation granted.
Open ==
    /\ Running
    /\ \E aFile \in OpenedFiles :
        /\ \/ md.itsChangeCount < MaxChangeCount
           \/ ~ ReachesLoadGenerators(aFile, Inject(memory, 0, FALSE))
        /\ \E L \in { LoadGeneratorFile(md, Inject(memory, 0, FALSE), aFile) } :
            /\ ~ L.hang
            /\ ~ L.theHoneycombCall.itsNullWrite
            /\ md' = L.md
            /\ memory' = Settle(L.mem)
            /\ theLast' =
                [ op |-> "LoadGeneratorFile", theFileKind |-> FileKind(aFile),
                  err |-> L.err, entered |-> L.entered,
                  itsBuiltOver |-> L.itsBuiltOver,
                  itsLoadedSpaceIsUntouched |-> SameLoadedSpace(md, L.md),
                  hadSpace |-> /\ md.itsDirichletDomain.ptr # NULL
                               /\ md.itsHoneycomb.ptr # NULL,
                  theHoneycombCall |-> L.theHoneycombCall,
                  fault |-> "none",
                  aFramePeriod |-> 0 ]
    /\ UNCHANGED dirichletVars
    /\ UNCHANGED stayVars
    /\ UNCHANGED cullVars
    /\ UNCHANGED theRenorm

Centerpiece ==
    /\ Running
    /\ md.itsChangeCount < MaxChangeCount
    /\ \E aCenterpieceChoice \in CenterpieceChoices :
        md' = SetCenterpiece(md, aCenterpieceChoice)
    /\ theLast' = Operation("SetCenterpiece")
    /\ UNCHANGED memory
    /\ UNCHANGED dirichletVars
    /\ UNCHANGED stayVars
    /\ UNCHANGED cullVars
    /\ UNCHANGED theRenorm

ShowObserver ==
    /\ Running
    /\ md.itsChangeCount < MaxChangeCount
    /\ \E aShowObserverChoice \in BOOLEAN :
        md' = SetShowObserver(md, aShowObserverChoice)
    /\ theLast' = Operation("SetShowObserver")
    /\ UNCHANGED memory
    /\ UNCHANGED dirichletVars
    /\ UNCHANGED stayVars
    /\ UNCHANGED cullVars
    /\ UNCHANGED theRenorm

ShowColorCoding ==
    /\ Running
    /\ md.itsChangeCount < MaxChangeCount
    /\ \E aShowColorCodingChoice \in BOOLEAN :
        md' = SetShowColorCoding(md, aShowColorCodingChoice)
    /\ theLast' = Operation("SetShowColorCoding")
    /\ UNCHANGED memory
    /\ UNCHANGED dirichletVars
    /\ UNCHANGED stayVars
    /\ UNCHANGED cullVars
    /\ UNCHANGED theRenorm

ShowCliffordParallels ==
    /\ Running
    /\ md.itsChangeCount < MaxChangeCount
    /\ \E aCliffordMode \in CliffordModes :
        md' = SetShowCliffordParallels(md, aCliffordMode)
    /\ theLast' = Operation("SetShowCliffordParallels")
    /\ UNCHANGED memory
    /\ UNCHANGED dirichletVars
    /\ UNCHANGED stayVars
    /\ UNCHANGED cullVars
    /\ UNCHANGED theRenorm

ShowVertexFigures ==
    /\ Running
    /\ md.itsChangeCount < MaxChangeCount
    /\ \E aShowVertexFiguresChoice \in BOOLEAN :
        md' = SetShowVertexFigures(md, aShowVertexFiguresChoice)
    /\ theLast' = Operation("SetShowVertexFigures")
    /\ UNCHANGED memory
    /\ UNCHANGED dirichletVars
    /\ UNCHANGED stayVars
    /\ UNCHANGED cullVars
    /\ UNCHANGED theRenorm

Fog ==
    /\ Running
    /\ md.itsChangeCount < MaxChangeCount
    /\ \E aFogFlag \in BOOLEAN :
        md' = SetFogFlag(md, aFogFlag)
    /\ theLast' = Operation("SetFogFlag")
    /\ UNCHANGED memory
    /\ UNCHANGED dirichletVars
    /\ UNCHANGED stayVars
    /\ UNCHANGED cullVars
    /\ UNCHANGED theRenorm

Rotate ==
    /\ Running
    /\ md.itsChangeCount < MaxChangeCount
    /\ \E aQuarterTurns \in RotationGestures :
        md' = GestureRotate(md, aQuarterTurns)
    /\ theLast' = Operation("GestureRotate")
    /\ UNCHANGED memory
    /\ UNCHANGED dirichletVars
    /\ UNCHANGED stayVars
    /\ UNCHANGED cullVars
    /\ UNCHANGED theRenorm

Pinch ==
    /\ Running
    /\ md.itsChangeCount < MaxChangeCount
    /\ \E anExpansionFactor \in ExpansionFactors :
        md' = GesturePinch(md, anExpansionFactor)
    /\ theLast' = Operation("GesturePinch")
    /\ UNCHANGED memory
    /\ UNCHANGED dirichletVars
    /\ UNCHANGED stayVars
    /\ UNCHANGED cullVars
    /\ UNCHANGED theRenorm

\* MouseMoved: a translation along the z axis in a loaded space, a
\* translation across it in a flat space, a rotation about it anywhere.
Mouse ==
    /\ Running
    /\ \E aMouseLocation \in MouseLocations : \E aMouseMotion \in MouseMotions :
       \E aTranslationFlag \in BOOLEAN : \E aZAxisFlag \in BOOLEAN :
        /\ \/ md.itsChangeCount < MaxChangeCount
           \/ ~ MouseCounts(aMouseLocation, aMouseMotion)
        /\ IF aTranslationFlag
           THEN IF aZAxisFlag THEN md.itsSpaceType # "SpaceNone"
                ELSE md.itsSpaceType = "SpaceFlat"
           ELSE aZAxisFlag
        /\ md' = MouseMoved(md, aMouseLocation, aMouseMotion,
                            aTranslationFlag, aZAxisFlag)
    /\ theLast' = Operation("MouseMoved")
    /\ UNCHANGED memory
    /\ UNCHANGED dirichletVars
    /\ UNCHANGED stayVars
    /\ UNCHANGED cullVars
    /\ UNCHANGED theRenorm

\* SimulationUpdate, called while SimulationWantsUpdates.
Update ==
    /\ Running
    /\ SimulationWantsUpdates(md)
    /\ md.itsChangeCount < MaxChangeCount
    /\ \E aFramePeriod \in FramePeriods :
        /\ md' = SimulationUpdate(md, aFramePeriod)
        /\ theLast' = [ Operation("SimulationUpdate")
                        EXCEPT !.aFramePeriod = aFramePeriod ]
    /\ UNCHANGED memory
    /\ UNCHANGED dirichletVars
    /\ UNCHANGED stayVars
    /\ UNCHANGED cullVars
    /\ UNCHANGED theRenorm

\* The platform-dependent renderer re-creates the meshes whose flags it
\* finds set and clears those flags.
RefreshMeshes ==
    /\ Running
    /\ md.itsDirichletWallsMeshNeedsRefresh \/ md.itsVertexFigureMeshNeedsReplacement
    /\ \E aWallsFlag \in { FALSE, md.itsDirichletWallsMeshNeedsRefresh } :
       \E aFiguresFlag \in { FALSE, md.itsVertexFigureMeshNeedsReplacement } :
            /\ << aWallsFlag, aFiguresFlag >>
                    # << md.itsDirichletWallsMeshNeedsRefresh,
                         md.itsVertexFigureMeshNeedsReplacement >>
            /\ md' = [ md EXCEPT !.itsDirichletWallsMeshNeedsRefresh = aWallsFlag,
                                 !.itsVertexFigureMeshNeedsReplacement = aFiguresFlag ]
    /\ theLast' = Operation("RefreshMeshes")
    /\ UNCHANGED memory
    /\ UNCHANGED dirichletVars
    /\ UNCHANGED stayVars
    /\ UNCHANGED cullVars
    /\ UNCHANGED theRenorm

InteractionNext ==
    \/ Open
    \/ Centerpiece
    \/ ShowObserver
    \/ ShowColorCoding
    \/ ShowCliffordParallels
    \/ ShowVertexFigures
    \/ Fog
    \/ Rotate
    \/ Pinch
    \/ Tap
    \/ Mouse
    \/ Update
    \/ RefreshMeshes

InteractionSpec == ModelDataInit /\ [][InteractionNext]_vars

(***************************************************************************)
(* Rendering: a honeycomb is culled and sorted frame after frame, seen     *)
(* through one view matrix after another.                                  *)
(***************************************************************************)
\* The honeycomb ConstructHoneycomb builds for a holonomy group.
HoneycombOf(aGroup) ==
    ConstructHoneycomb(aGroup, NullDomain, NullHoneycomb,
                       NewMemory({}, 0, FALSE)).hc

\* A quarter turn about the y axis and the mirror in the plane x = 0.
MatrixQuarterTurnY ==
    Mat(<<0,0,1,0>>, <<0,1,0,0>>, <<-1,0,0,0>>, <<0,0,0,1>>, "ImagePositive")

MatrixMirrorX ==
    Mat(<<-1,0,0,0>>, <<0,1,0,0>>, <<0,0,1,0>>, <<0,0,0,1>>, "ImageNegative")

\* The groups whose honeycombs are rendered, each with its geometry.
RenderedSpaces ==
    { [ group |-> BoxThenCubeGroup,     type |-> "SpaceFlat" ],
      [ group |-> MirroredCubeGroup,    type |-> "SpaceFlat" ],
      [ group |-> LensGroup,            type |-> "SpaceSpherical" ],
      [ group |-> IdealOctahedronGroup, type |-> "SpaceHyperbolic" ] }

ViewMatricesOf(aSpaceType) ==
    IF aSpaceType = "SpaceFlat"
        THEN { MatrixIdentity, MatrixMirrorX, MatrixTranslation(1,0,2) }
    ELSE IF aSpaceType = "SpaceSpherical"
        THEN { MatrixIdentity, MatrixMirrorX, LensQuarterTurn }
    ELSE IF aSpaceType = "SpaceHyperbolic"
        THEN { MatrixIdentity, MatrixQuarterTurnY,
               MatrixHyperbolicMirror(1,1,1) }
    ELSE { MatrixIdentity }

ImageSizes == { <<2, 2>>, <<4, 2>> }

HorizonRadii == { 1, 2 }

DirichletDomainRadii == { 0, 1 }

CullInit ==
    /\ ModelDataStart
    /\ aHolonomyGroup = NullMatrixList
    /\ enteredWithNull = TRUE
    /\ call = CallState(NullDomain, NewMemory({CallerList}, 0, FALSE))
    /\ phase = "Entry"
    /\ theIndex = 1
    /\ theSeed = "none"
    /\ theLastCut = NoCut
    /\ theMesh = NoMeshes
    /\ theRenorm = NoRenorm
    /\ itsPlacement = MatrixIdentity
    /\ theCrossings = 0
    /\ theStays = 0
    /\ theStay = NoStay
    /\ \/ \E aSpace \in RenderedSpaces :
            /\ honeycomb = HoneycombOf(aSpace.group)
            /\ theCull = [ NoCull EXCEPT !.op = "ConstructHoneycomb",
                                         !.aSpaceType = aSpace.type ]
       \/ /\ honeycomb = NullHoneycomb
          /\ theCull \in { [ NoCull EXCEPT !.aSpaceType = aType ] :
                            aType \in { "SpaceNone", "SpaceFlat" } }

\* CullAndSortVisibleCells on the honeycomb, or on no honeycomb at all.
Cull ==
    /\ \E aViewMatrix \in ViewMatricesOf(theCull.aSpaceType) :
       \E aSize \in ImageSizes :
       \E aHorizonRadius \in HorizonRadii :
       \E aDirichletDomainRadius \in DirichletDomainRadii :
       \E anOrder \in { "forwards", "backwards" } :
         /\ honeycomb' =
              CullAndSortVisibleCells(honeycomb, aViewMatrix, aSize[1], aSize[2],
                                      aHorizonRadius, aDirichletDomainRadius,
                                      theCull.aSpaceType, anOrder)
         /\ theCull' =
              [ op |-> "CullAndSortVisibleCells", aViewMatrix |-> aViewMatrix,
                anImageWidth |-> aSize[1], anImageHeight |-> aSize[2],
                aHorizonRadius |-> aHorizonRadius,
                aDirichletDomainRadius |-> aDirichletDomainRadius,
                aSpaceType |-> theCull.aSpaceType ]
    /\ UNCHANGED dirichletVars
    /\ UNCHANGED stayVars
    /\ UNCHANGED theRenorm
    /\ UNCHANGED modelVars

\* SelectFirstCellOnly, on a honeycomb that has cells.
SelectFirst ==
    /\ honeycomb.ptr # NULL
    /\ honeycomb.itsNumCells > 0
    /\ honeycomb' = SelectFirstCellOnly(honeycomb)
    /\ theCull' = [ theCull EXCEPT !.op = "SelectFirstCellOnly" ]
    /\ UNCHANGED dirichletVars
    /\ UNCHANGED stayVars
    /\ UNCHANGED theRenorm
    /\ UNCHANGED modelVars

CullNext ==
    \/ Cull
    \/ SelectFirst

CullSpec == CullInit /\ [][CullNext]_vars

(***************************************************************************)
(* Renormalization: a placement that numerical errors have forced out of   *)
(* round is handed to FastGramSchmidt, frame after frame.                  *)
(***************************************************************************)
Tenths(n) == n * (FixedOne \div 10)

Hundredths(n) == n * (FixedOne \div 100)

\* Placements in round: the identity, and per geometry a placement away
\* from the origin (a turn with cosine 0.8 and sine 0.6, a boost with cosh
\* 1.25 and sinh 0.75, a turn and a translation by (0.5, 0.25, 0))
RoundPlacements(aSpaceType) ==
    IF aSpaceType = "SpaceSpherical"
    THEN { FixedIdentity,
           << << Tenths(8), 0, 0, Tenths(6) >>, << 0, FixedOne, 0, 0 >>,
              << 0, 0, FixedOne, 0 >>, << Tenths(-6), 0, 0, Tenths(8) >> >> }
    ELSE IF aSpaceType = "SpaceHyperbolic"
    THEN { FixedIdentity,
           << << FixedOne, 0, 0, 0 >>, << 0, FixedOne, 0, 0 >>,
              << 0, 0, Hundredths(125), Hundredths(75) >>,
              << 0, 0, Hundredths(75), Hundredths(125) >> >> }
    ELSE { FixedIdentity,
           << << Tenths(8), Tenths(6), 0, 0 >>, << Tenths(-6), Tenths(8), 0, 0 >>,
              << 0, 0, FixedOne, 0 >>,
              << Hundredths(50), Hundredths(25), 0, FixedOne >> >> }

\* The size of one entry of noise: 0.0003
NoiseSize == 3 * (FixedOne \div 10000)

NoNoise ==
    << << 0, 0, 0, 0 >>, << 0, 0, 0, 0 >>, << 0, 0, 0, 0 >>, << 0, 0, 0, 0 >> >>

\* Noise of norm below 0.001: none, one entry of either sign, or two entries
\* across the diagonal from one another.
Noises ==
    { NoNoise }
      \cup { [ NoNoise EXCEPT ![i][j] = s * NoiseSize ] :
                i \in 1..4, j \in 1..4, s \in { -1, 1 } }
      \cup { [ NoNoise EXCEPT ![i][j] = NoiseSize, ![j][i] = NoiseSize ] :
                i \in 1..4, j \in 1..4 }

MatrixPlus(a, b) ==
    [ i \in 1..4 |-> [ j \in 1..4 |-> a[i][j] + b[i][j] ] ]

RenormInit ==
    /\ ModelDataStart
    /\ CullIdle
    /\ aHolonomyGroup = NullMatrixList
    /\ enteredWithNull = TRUE
    /\ call = CallState(NullDomain, NewMemory({CallerList}, 0, FALSE))
    /\ phase = "Entry"
    /\ theIndex = 1
    /\ theSeed = "none"
    /\ theLastCut = NoCut
    /\ theMesh = NoMeshes
    /\ itsPlacement = MatrixIdentity
    /\ theCrossings = 0
    /\ theStays = 0
    /\ theStay = NoStay
    /\ \E aSpaceType \in { "SpaceNone", "SpaceSpherical", "SpaceFlat",
                           "SpaceHyperbolic" } :
       \E aPlacement \in RoundPlacements(aSpaceType) :
       \E aNoise \in Noises :
          theRenorm = [ aSpaceType |-> aSpaceType,
                        thePlacement |-> aPlacement,
                        thePerturbed |-> MatrixPlus(aPlacement, aNoise),
                        theBefore |-> MatrixPlus(aPlacement, aNoise),
                        aMatrix |-> MatrixPlus(aPlacement, aNoise),
                        theApplications |-> 0 ]

\* FastGramSchmidt(&md->itsUserBodyPlacement, md->itsSpaceType), as each
\* frame and each motion of the mouse ends with it; the second time on its
\* own result.
Renormalize ==
    /\ theRenorm.theApplications < 2
    /\ theRenorm' =
          [ theRenorm EXCEPT
              !.theBefore = theRenorm.aMatrix,
              !.aMatrix = FastGramSchmidt(theRenorm.aMatrix, theRenorm.aSpaceType),
              !.theApplications = @ + 1 ]
    /\ UNCHANGED dirichletVars
    /\ UNCHANGED stayVars
    /\ UNCHANGED modelVars
    /\ UNCHANGED cullVars

RenormNext ==
    \/ Renormalize

RenormSpec == RenormInit /\ [][RenormNext]_vars

(***************************************************************************)
(* Mesh measurements                                                       *)
(***************************************************************************)
NumVertices(dd) == Cardinality(DOMAIN dd.V)
NumHalfEdges(dd) == Cardinality(DOMAIN dd.H)
NumFaces(dd) == Cardinality(DOMAIN dd.F)

\* V - E + F = 2 with E = half edges / 2, cleared of the division
EulerHolds(dd) ==
    2 * NumVertices(dd) - NumHalfEdges(dd) + 2 * NumFaces(dd) = 4

\* The lists hold exactly the elements of the maps, each once.
ListsMatch(dd) ==
    /\ Range(dd.itsVertexList) = DOMAIN dd.V
    /\ Len(dd.itsVertexList) = NumVertices(dd)
    /\ Range(dd.itsHalfEdgeList) = DOMAIN dd.H
    /\ Len(dd.itsHalfEdgeList) = NumHalfEdges(dd)
    /\ Range(dd.itsFaceList) = DOMAIN dd.F
    /\ Len(dd.itsFaceList) = NumFaces(dd)

TypeOK ==
    /\ phase \in { "Entry", "Seeded", "Cutting", "Success", "Error", "Hung" }
    /\ theSeed \in { "none", "banana", "lens" }
    /\ theStays \in 0..2
    /\ theCrossings \in 0..MaxCrossings
    /\ ListsMatch(call.dd)

(***************************************************************************)
(* Properties of the Dirichlet domain construction                         *)
(***************************************************************************)
\* The order n of the lens MakeLens builds for the list.
theLensOrder ==
    IF aHolonomyGroup.itsMatrices[2].m[4][4] = 1 THEN 4
    ELSE LensOrder(aHolonomyGroup.itsMatrices[2])

\* C1: V - E + F = 2 (E = half edges / 2) holds for the seed (a banana has
\* 2 vertices, 3 edges and 3 faces, a lens of order n has n vertices, n edges
\* and 2 faces), after every IntersectWithHalfspace call that returns
\* success, and for every non-NULL domain ConstructDirichletDomain returns.
C1_Euler ==
    /\ (phase = "Seeded" /\ theSeed = "banana") =>
            /\ NumVertices(call.dd) = 2
            /\ NumHalfEdges(call.dd) = 2 * 3
            /\ NumFaces(call.dd) = 3
    /\ (phase = "Seeded" /\ theSeed = "lens") =>
            /\ NumVertices(call.dd) = theLensOrder
            /\ NumHalfEdges(call.dd) = 2 * theLensOrder
            /\ NumFaces(call.dd) = 2
    /\ phase \in { "Seeded", "Cutting" } => EulerHolds(call.dd)
    /\ (phase = "Success" /\ enteredWithNull /\ call.dd.ptr # NULL) =>
            EulerHolds(call.dd)

\* a cut that removed part of the polyhedron has returned success
C1_Witness ==
    /\ phase = "Cutting"
    /\ theLastCut.made
    /\ NumVertices(theLastCut.before) = 2
    /\ NumVertices(call.dd) = 4
    /\ NumHalfEdges(call.dd) = 12
    /\ NumFaces(call.dd) = 4

\* every error ConstructDirichletDomain can return for lack of memory
OutOfMemoryErrors ==
    { "Out of memory in MakeBanana().", "Out of memory in MakeLens().",
      theMemoryError }

FaceOfTranslation(dd, f, dx, dy, dz) ==
    dd.F[f].itsMatrix = MatrixTranslation(dx, dy, dz)

\* C2: on the list {identity, unit translations along x, y, z and their
\* inverses} ConstructDirichletDomain succeeds (it fails only when memory
\* runs out), the domain has 8 vertices, 24 half edges and 6 faces, and two
\* distinct faces have the same color index exactly when their translations
\* are opposite.
C2_Cube ==
    (aHolonomyGroup = CubeGroup /\ enteredWithNull) =>
        /\ phase # "Hung"
        /\ phase = "Error" => call.err \in OutOfMemoryErrors
        /\ phase = "Success" =>
            /\ call.dd.ptr # NULL
            /\ NumVertices(call.dd) = 8
            /\ NumHalfEdges(call.dd) = 24
            /\ NumFaces(call.dd) = 6
            /\ \A dx, dy, dz \in {-1, 0, 1} :
                 Abs(dx) + Abs(dy) + Abs(dz) = 1 =>
                    \E f \in DOMAIN call.dd.F :
                        FaceOfTranslation(call.dd, f, dx, dy, dz)
            /\ \A f, g \in DOMAIN call.dd.F :
                 f # g =>
                    ( call.dd.F[f].itsColorIndex = call.dd.F[g].itsColorIndex
                      <=> \A j \in 1..3 : call.dd.F[g].itsMatrix.m[4][j]
                                            = - call.dd.F[f].itsMatrix.m[4][j] )

C2_Witness ==
    /\ aHolonomyGroup = CubeGroup
    /\ phase = "Success"
    /\ NumFaces(call.dd) = 6
    /\ { call.dd.F[f].itsColorIndex : f \in DOMAIN call.dd.F } = {0, 1, 2}

SameColor(dd, f, g) == dd.F[f].itsColorIndex = dd.F[g].itsColorIndex

\* the matrix of g is the geometric inverse of the matrix of f within
\* MATE_MATRIX_EPSILON on every entry
AreMates(dd, f, g) ==
    MatrixEquality(dd.F[g].itsMatrix, MatrixGeometricInverse(dd.F[f].itsMatrix),
                   MATE_MATRIX_EPSILON_DEN)

\* C5: after AssignFaceColors two distinct faces have the same color index
\* exactly when the matrix of one is the geometric inverse of the matrix of
\* the other; the pairing is symmetric; a face whose matrix is its own
\* inverse shares its index with no face; no index is on three faces; the
\* indices in use are exactly 0 .. count - 1.
C5_FacePairing ==
    (phase = "Success" /\ call.dd.ptr # NULL) =>
        LET dd == call.dd
            faces == DOMAIN dd.F
        IN  /\ \A f, g \in faces :
                 f # g => ( SameColor(dd, f, g) <=> AreMates(dd, f, g) )
            /\ \A f, g \in faces : AreMates(dd, f, g) <=> AreMates(dd, g, f)
            /\ \A f \in faces :
                 AreMates(dd, f, f) =>
                    \A g \in faces \ {f} : ~ SameColor(dd, f, g)
            /\ \A f \in faces :
                 Cardinality({ g \in faces : SameColor(dd, f, g) }) <= 2
            /\ { dd.F[f].itsColorIndex : f \in faces } = 0..(dd.theCount - 1)

\* a domain with a pair of mated faces and one with self-mated faces
C5_Witness ==
    /\ phase = "Success"
    /\ call.dd.ptr # NULL
    /\ \/ /\ aHolonomyGroup = QuaternionGroup
          /\ call.dd.theCount = 3
          /\ \E f, g \in DOMAIN call.dd.F :
                f # g /\ AreMates(call.dd, f, g) /\ SameColor(call.dd, f, g)
       \/ /\ aHolonomyGroup = MirroredCubeGroup
          /\ call.dd.theCount = 6
          /\ \A f \in DOMAIN call.dd.F : AreMates(call.dd, f, f)

\* C6: when ConstructDirichletDomain was entered with a NULL output location
\* and returns an error, the output location is NULL and every block
\* allocated during the call has been freed, none of them twice.
C6_ErrorFreesEverything ==
    (phase = "Error" /\ enteredWithNull) =>
        /\ call.err # NoError
        /\ call.dd = NullDomain
        /\ call.mem.live = {CallerList}
        /\ ~ call.mem.doubleFree

\* an allocation inside IntersectWithHalfspace failed in the main loop, when
\* the polyhedron had been built and cut before
C6_Witness ==
    /\ phase = "Error"
    /\ enteredWithNull
    /\ call.err = theMemoryError
    /\ theIndex > 2
    /\ theLastCut.made
    /\ call.dd = NullDomain
    /\ call.mem.live = {CallerList}

\* The call was given an allocated list and a NULL output location.
CallIsValid == aHolonomyGroup.ptr # NULL /\ enteredWithNull

\* What the first part of the call does when no allocation fails.
theSeedCall ==
    ConstructSeedPolyhedron(aHolonomyGroup,
        CallState(NullDomain, NewMemory({CallerList}, 0, FALSE)))

\* C11: for every non-empty list whose element 0 is not the identity,
\* whatever its length, ConstructDirichletDomain returns an error and builds
\* nothing.
C11_NonIdentityFirstIsRejected ==
    ( /\ phase # "Entry"
      /\ CallIsValid
      /\ Len(aHolonomyGroup.itsMatrices) > 0
      /\ ~ MatrixIsIdentity(aHolonomyGroup.itsMatrices[1]) )
    => /\ phase = "Error"
       /\ call.err # NoError
       /\ call.dd = NullDomain
       /\ call.mem.live = {CallerList}

\* C12: for the list {identity} and the list {identity, antipodal map}
\* ConstructDirichletDomain returns no error, makes no GET_MEMORY call and
\* leaves the output location NULL; for a list with no matrices it returns
\* an error and leaves the output location NULL.
C12_TrivialGroupGivesNoDomain ==
    /\ ( /\ phase # "Entry"
         /\ CallIsValid
         /\ aHolonomyGroup \in {TrivialGroup, ProjectiveGroup} )
       => /\ phase = "Success"
          /\ call.err = NoError
          /\ call.dd = NullDomain
          /\ call.mem.live = {CallerList}
          /\ theSeedCall.mem.calls = 0
    /\ ( /\ phase # "Entry"
         /\ CallIsValid
         /\ aHolonomyGroup = EmptyGroup )
       => /\ phase = "Error"
          /\ call.err # NoError
          /\ call.dd = NullDomain
          /\ call.mem.live = {CallerList}

\* the call on {identity, antipodal map} has returned
C12_Witness ==
    /\ phase = "Success"
    /\ enteredWithNull
    /\ aHolonomyGroup = ProjectiveGroup
    /\ call.err = NoError
    /\ call.dd = NullDomain

\* The indices (from 1, the identity at 1) of the matrices from the fourth
\* on whose halfspace is independent of those of the second and third.
theIndependentThirds ==
    LET ms == aHolonomyGroup.itsMatrices
    IN  { k \in 4..Len(ms) :
            IsIndependentThird(MakeHalfspaceInequality(ms[2]),
                               MakeHalfspaceInequality(ms[3]), ms[k]) }

Least(S) == CHOOSE k \in S : \A j \in S : k <= j

\* The indices after the third wall whose halfspace misses the vertices of
\* the banana.
theIndependentFourths ==
    LET ms == aHolonomyGroup.itsMatrices
    IN  { j \in (Least(theIndependentThirds) + 1)..Len(ms) :
            AvoidsBananaVertex(theSeedCall.dd, ms[j]) }

theListHasASeed ==
    /\ CallIsValid
    /\ Len(aHolonomyGroup.itsMatrices) >= 3
    /\ MatrixIsIdentity(aHolonomyGroup.itsMatrices[1])

\* C13: for a list of at least 3 matrices with the identity first: if some
\* matrix from index 3 on has a halfspace independent of those of matrices 1
\* and 2, the seed is the banana of matrices 1, 2 and the first such one,
\* and it is cut by the first later matrix whose halfspace misses the
\* banana's vertices; with no such matrix the call fails with "Chimney-like
\* spaces not supported." and a NULL output; with no independent third the
\* seed is the lens of matrices 1 and 2.
C13_SeedDecision ==
    LET ms == aHolonomyGroup.itsMatrices
    IN  /\ (theListHasASeed /\ phase = "Seeded") =>
              IF theIndependentThirds # {}
              THEN /\ theSeed = "banana"
                   /\ NumVertices(call.dd) = 2
                   /\ NumFaces(call.dd) = 3
                   /\ { call.dd.F[f].itsMatrix : f \in DOMAIN call.dd.F }
                        = { ms[2], ms[3], ms[Least(theIndependentThirds)] }
              ELSE /\ theSeed = "lens"
                   /\ NumFaces(call.dd) = 2
                   /\ { call.dd.F[f].itsMatrix : f \in DOMAIN call.dd.F }
                        = { ms[2], ms[3] }
        /\ (theListHasASeed /\ theSeed = "banana" /\ phase \notin {"Entry", "Seeded"}) =>
              IF theIndependentFourths = {}
              THEN /\ phase = "Error"
                   /\ call.err = "Chimney-like spaces not supported."
                   /\ call.dd = NullDomain
              ELSE \/ phase = "Error" /\ call.err = theMemoryError
                   \/ /\ theLastCut.made
                      /\ theIndex = 1 =>
                            theLastCut.matrix = ms[Least(theIndependentFourths)]
        /\ (theListHasASeed /\ theSeed = "lens" /\ phase = "Cutting" /\ theIndex = 1) =>
              ~ theLastCut.made

\* the banana of +x, -x and +y (the translations along 2x before +y are
\* no third wall) was cut by +z (-y passes through the banana's vertices)
C13_Witness ==
    /\ aHolonomyGroup = SlabThenCubeGroup
    /\ enteredWithNull
    /\ phase = "Cutting"
    /\ theIndex = 1
    /\ theSeed = "banana"
    /\ Least(theIndependentThirds) = 6
    /\ Least(theIndependentFourths) = 8
    /\ theLastCut.made
    /\ theLastCut.matrix = MatrixTranslation(0,0,1)
    /\ NumFaces(call.dd) = 4

(***************************************************************************)
(* Properties of the culled honeycomb                                      *)
(***************************************************************************)
\* The latest call on the honeycomb was CullAndSortVisibleCells.
WasCulled == theCull.op = "CullAndSortVisibleCells" /\ honeycomb.ptr # NULL

WasSelected == theCull.op = "SelectFirstCellOnly" /\ honeycomb.ptr # NULL

\* The cells itsVisibleCells[0 .. itsNumVisibleCells - 1] point to.
theVisibleCells ==
    { honeycomb.visibleCells[i] : i \in 1..honeycomb.itsNumVisibleCells }

theCenterInCameraSpace(i) ==
    VectorTimesMatrix(honeycomb.cells[i].itsCellCenterInWorldSpace,
                      theCull.aViewMatrix)

theAdjustedRadius ==
    theAdjustedDirichletDomainRadiusOf(theCull.aSpaceType,
                                       theCull.aDirichletDomainRadius)

\* The three tests of the claim on cell i.
IsNotBehind(i) ==
    theCenterInCameraSpace(i)[3] * theAdjustedRadius.d > - theAdjustedRadius.n

IsWithinTilingRadius(i) ==
    DistanceBelow(VectorGeometricDistance(theCenterInCameraSpace(i)),
                  theCull.aHorizonRadius + theCull.aDirichletDomainRadius)

IsInsideFrustum(i) ==
    \A p \in 1..4 :
        ~ BeyondCullingPlane(theCenterInCameraSpace(i), theAdjustedRadius,
              MakeCullingHyperplanes(theCull.anImageWidth,
                                     theCull.anImageHeight)[p])

\* C14: after CullAndSortVisibleCells on a non-NULL honeycomb,
\* itsNumVisiblePlainCells is the number of visible cells whose matrix has
\* the parity of the view matrix and itsNumVisibleReflectedCells the number
\* of the other visible cells; after it and after SelectFirstCellOnly (whose
\* one visible cell is the identity's, counted as plain) the two counts add
\* up to itsNumVisibleCells, which is at most itsNumCells.
C14_VisibleCounts ==
    /\ WasCulled =>
        /\ honeycomb.itsNumVisiblePlainCells =
             Cardinality({ i \in 1..honeycomb.itsNumVisibleCells :
                 honeycomb.cells[honeycomb.visibleCells[i]].itsMatrix.itsParity
                    = theCull.aViewMatrix.itsParity })
        /\ honeycomb.itsNumVisibleReflectedCells =
             Cardinality({ i \in 1..honeycomb.itsNumVisibleCells :
                 honeycomb.cells[honeycomb.visibleCells[i]].itsMatrix.itsParity
                    # theCull.aViewMatrix.itsParity })
    /\ WasSelected =>
        /\ honeycomb.itsNumVisiblePlainCells =
             Cardinality({ i \in 1..honeycomb.itsNumVisibleCells :
                 honeycomb.cells[honeycomb.visibleCells[i]].itsMatrix.itsParity
                    = "ImagePositive" })
        /\ honeycomb.itsNumVisibleReflectedCells = 0
    /\ (WasCulled \/ WasSelected) =>
        /\ honeycomb.itsNumVisiblePlainCells
             + honeycomb.itsNumVisibleReflectedCells
           = honeycomb.itsNumVisibleCells
        /\ honeycomb.itsNumVisibleCells <= honeycomb.itsNumCells

\* plain and reflected cells are visible at once, and some cell is culled
C14_Witness ==
    /\ WasCulled
    /\ honeycomb.itsNumVisiblePlainCells >= 2
    /\ honeycomb.itsNumVisibleReflectedCells >= 1
    /\ honeycomb.itsNumVisibleCells < honeycomb.itsNumCells
    /\ theCull.aViewMatrix.itsParity = "ImageNegative"

\* C15: after CullAndSortVisibleCells, itsVisibleCells[0 ..
\* itsNumVisibleCells - 1] holds each accepted cell exactly once, every entry
\* a cell of itsCells, in the order of non-decreasing
\* itsDistanceCameraToCellCenter.
C15_SortedPermutation ==
    WasCulled =>
        /\ theVisibleCells =
             theAcceptedCells(honeycomb.cells, theCull.aViewMatrix,
                              theCull.anImageWidth, theCull.anImageHeight,
                              theCull.aHorizonRadius,
                              theCull.aDirichletDomainRadius, theCull.aSpaceType)
        /\ Cardinality(theVisibleCells) = honeycomb.itsNumVisibleCells
        /\ theVisibleCells \subseteq 1..honeycomb.itsNumCells
        /\ \A i \in 1..honeycomb.itsNumCells :
             honeycomb.cells[i].itsDistanceCameraToCellCenter
                = VectorGeometricDistance(theCenterInCameraSpace(i))
        /\ \A i \in 1..honeycomb.itsNumVisibleCells :
           \A j \in i..honeycomb.itsNumVisibleCells :
             ~ DistanceLess(
                 honeycomb.cells[honeycomb.visibleCells[j]]
                    .itsDistanceCameraToCellCenter,
                 honeycomb.cells[honeycomb.visibleCells[i]]
                    .itsDistanceCameraToCellCenter)

\* a later cell of itsCells is nearer the camera than an earlier one, and
\* both are visible: the sort has moved them
C15_Witness ==
    /\ WasCulled
    /\ honeycomb.itsNumVisibleCells >= 3
    /\ \E i \in 1..honeycomb.itsNumVisibleCells :
       \E j \in 1..honeycomb.itsNumVisibleCells :
         /\ i < j
         /\ honeycomb.visibleCells[i] > honeycomb.visibleCells[j]
         /\ DistanceLess(
                honeycomb.cells[honeycomb.visibleCells[i]]
                   .itsDistanceCameraToCellCenter,
                honeycomb.cells[honeycomb.visibleCells[j]]
                   .itsDistanceCameraToCellCenter)

\* C16: CullAndSortVisibleCells accepts a cell if and only if the space is
\* spherical or the cell passes all three tests (camera-space z above minus
\* the adjusted radius, distance below horizon radius plus outradius, inside
\* all four frustum planes by the adjusted radius); so in a spherical space
\* every cell is visible, and in a flat or hyperbolic space no visible cell
\* is at a distance of horizon radius plus outradius or more.
C16_AcceptedIffTestsPass ==
    WasCulled =>
        /\ \A i \in 1..honeycomb.itsNumCells :
             i \in theVisibleCells <=>
                \/ theCull.aSpaceType = "SpaceSpherical"
                \/ IsNotBehind(i) /\ IsWithinTilingRadius(i) /\ IsInsideFrustum(i)
        /\ theCull.aSpaceType = "SpaceSpherical" =>
             honeycomb.itsNumVisibleCells = honeycomb.itsNumCells
        /\ theCull.aSpaceType \in { "SpaceFlat", "SpaceHyperbolic" } =>
             \A i \in theVisibleCells : IsWithinTilingRadius(i)

\* in one frame a cell is culled by each of the three tests alone, and a
\* cell passes all three
C16_Witness ==
    /\ WasCulled
    /\ theCull.aSpaceType = "SpaceFlat"
    /\ \E i \in 1..honeycomb.itsNumCells :
         ~ IsNotBehind(i) /\ IsWithinTilingRadius(i) /\ IsInsideFrustum(i)
         /\ i \notin theVisibleCells
    /\ \E i \in 1..honeycomb.itsNumCells :
         IsNotBehind(i) /\ ~ IsWithinTilingRadius(i) /\ IsInsideFrustum(i)
         /\ i \notin theVisibleCells
    /\ \E i \in 1..honeycomb.itsNumCells :
         IsNotBehind(i) /\ IsWithinTilingRadius(i) /\ ~ IsInsideFrustum(i)
         /\ i \notin theVisibleCells
    /\ \E i \in theVisibleCells : i # 1

(***************************************************************************)
(* The loader and the life of the ModelData                                *)
(***************************************************************************)
\* The blocks a ModelData owns: its domain with all its elements and its
\* honeycomb with its two arrays.
BlocksOf(aModelData) ==
    LET dd == aModelData.itsDirichletDomain
        hc == aModelData.itsHoneycomb
    IN  ( {dd.ptr, hc.ptr, hc.itsCells, hc.itsVisibleCells}
          \cup Range(dd.itsVertexList) \cup Range(dd.itsHalfEdgeList)
          \cup Range(dd.itsFaceList) ) \ {NULL}

LoadReturned == theLast.op = "LoadGeneratorFile" /\ theLast.fault = "none"

\* C7: whenever LoadGenerators returns an error, at whatever stage, the
\* ModelData is in the "no space loaded" state: itsSpaceType is SpaceNone
\* and itsDirichletDomain and itsHoneycomb are NULL.
C7_ErrorLeavesNoSpace ==
    (LoadReturned /\ theLast.entered /\ theLast.err # NoError)
    => /\ md.itsSpaceType = "SpaceNone"
       /\ md.itsDirichletDomain = NullDomain
       /\ md.itsHoneycomb = NullHoneycomb

InputValidationErrors ==
    { "The matrix file is in UTF-16 format.",
      "Matrix file contains text other than numbers.",
      "The number of entries in the present file is not a multiple of 16.",
      "Matrix generators have inconsistent geometries",
      "ConstructDirichletDomain() expects the first matrix to be the identity." }

\* C8 as stated: when LoadGeneratorFile fails with an input-validation error
\* (UTF-16 input, text that is no number, a count that is no multiple of
\* 16, an inconsistent generator list, a first element that is not the
\* identity) the space type, the domain, the honeycomb, the placement and
\* the speed are those from before the call.
C8_ValidationErrorLeavesSpace ==
    (LoadReturned /\ theLast.err \in InputValidationErrors)
    => theLast.itsLoadedSpaceIsUntouched

\* C8 as the code has it: a file that is UTF-16, holds text that is no
\* number, or holds a count of numbers that is no multiple of 16 is refused
\* before LoadGenerators is reached, and the loaded space stays as it was;
\* generators of inconsistent geometries are found by DetectSpaceType after
\* LoadGenerators has reset the ModelData, and leave no space loaded, the
\* placement at the identity and the speed at its starting value.
C8_ErrorBeforeLoadGeneratorsLeavesSpace ==
    /\ ( /\ LoadReturned
         /\ \/ theLast.theFileKind.isUTF16
            \/ theLast.theFileKind.hasOtherText
            \/ theLast.theFileKind.hasBrokenCount )
       => /\ theLast.err # NoError
          /\ ~ theLast.entered
          /\ theLast.itsLoadedSpaceIsUntouched
    /\ (LoadReturned /\ theLast.err = "Matrix generators have inconsistent geometries")
       => /\ theLast.entered
          /\ md.itsSpaceType = "SpaceNone"
          /\ md.itsDirichletDomain = NullDomain
          /\ md.itsHoneycomb = NullHoneycomb
          /\ md.itsUserBodyPlacement = MatrixIdentity
          /\ md.itsUserBodyAdvance = 0
          /\ md.itsUserSpeed = 8 * USER_SPEED_INCREMENT

\* A file with fifteen numbers was refused while a lens space was loaded,
\* the observer paused.
C8_Witness ==
    /\ LoadReturned
    /\ theLast.theFileKind = FileKind(ShortFile)
    /\ theLast.err # NoError
    /\ theLast.hadSpace
    /\ md.itsSpaceType = "SpaceSpherical"
    /\ md.itsDirichletDomain.ptr # NULL
    /\ md.itsHoneycomb.ptr # NULL
    /\ md.itsPrePauseUserSpeed = 8 * USER_SPEED_INCREMENT
    /\ md.itsUserSpeed = 0

\* C9: across any sequence of loads, each succeeding or failing at any
\* step, and the shutdown after them: no location is built over while it
\* holds a domain or a honeycomb, the only blocks live between operations
\* are those of the one domain and the one honeycomb of the ModelData
\* (every list is freed), no block is freed twice, and nothing is live
\* after ShutDownModelData.
C9_NoLeakNoDoubleFree ==
    theLast.fault = "none"
    => /\ ~ memory.doubleFree
       /\ ~ theLast.itsBuiltOver
       /\ memory.live = BlocksOf(md)
       /\ theLast.op = "ShutDownModelData" => memory.live = {}

\* A second space was loaded over a first one, domain and honeycomb both.
C9_Witness ==
    /\ LoadReturned
    /\ theLast.err = NoError
    /\ theLast.hadSpace
    /\ md.itsChangeCount = 2
    /\ md.itsDirichletDomain.ptr # NULL
    /\ md.itsHoneycomb.ptr # NULL
    /\ Cardinality(memory.live) = 18

\* C10: if an allocation of ConstructHoneycomb / AllocateHoneycomb fails
\* (the header, itsCells or itsVisibleCells), ConstructHoneycomb returns an
\* error with *aHoneycomb NULL, keeps none of the blocks it got, and writes
\* no cell through a NULL itsCells.
C10_HoneycombAllocationFailure ==
    ( /\ theLast.op = "LoadGeneratorFile"
      /\ theLast.theHoneycombCall.called
      /\ theLast.theHoneycombCall.failed )
    => /\ theLast.theHoneycombCall.err # NoError
       /\ theLast.theHoneycombCall.ptr = NULL
       /\ theLast.theHoneycombCall.kept = {}
       /\ ~ theLast.theHoneycombCall.itsNullWrite

(***************************************************************************)
(* The ModelData at the controls                                           *)
(***************************************************************************)
OptionSetters ==
    { "SetCenterpiece", "SetShowObserver", "SetShowColorCoding",
      "SetShowCliffordParallels", "SetShowVertexFigures", "SetFogFlag" }

\* The observer's placement: the whole part and the advance.
thePlacementOf(aModelData) ==
    << aModelData.itsUserBodyPlacement, aModelData.itsUserBodyAdvance >>

theSpeedsOf(aModelData) ==
    << aModelData.itsUserSpeed, aModelData.itsPrePauseUserSpeed >>

\* C18: a tap on a moving observer (itsUserSpeed = s # 0) leaves
\* itsUserSpeed = 0 and itsPrePauseUserSpeed = s, a tap on a paused one sets
\* itsUserSpeed to itsPrePauseUserSpeed; two taps in a row leave
\* itsUserSpeed as it was; and the two speeds after a tap are the same
\* whatever itsSpaceType is.
C18_TapToggles ==
    /\ [][ theLast'.op = "GestureTap"
           => IF md.itsUserSpeed # 0
              THEN /\ md'.itsUserSpeed = 0
                   /\ md'.itsPrePauseUserSpeed = md.itsUserSpeed
              ELSE md'.itsUserSpeed = md.itsPrePauseUserSpeed ]_vars
    /\ [](GestureTap(GestureTap(md)).itsUserSpeed = md.itsUserSpeed)
    /\ [](\A aSpaceType \in { "SpaceNone", "SpaceSpherical", "SpaceFlat",
                                "SpaceHyperbolic" } :
            theSpeedsOf(GestureTap([ md EXCEPT !.itsSpaceType = aSpaceType ]))
                = theSpeedsOf(GestureTap(md)))

\* A tap has set the observer of a hyperbolic space moving again at the
\* speed it had.
C18_Witness ==
    /\ theLast.op = "GestureTap"
    /\ md.itsSpaceType = "SpaceHyperbolic"
    /\ md.itsUserSpeed = 8 * USER_SPEED_INCREMENT
    /\ md.itsPrePauseUserSpeed = 0

\* C19: a SimulationUpdate call with the frame period p advances the
\* observer by itsUserSpeed * min(p, MAX_FRAME_PERIOD) and turns the
\* centerpiece's angle back by min(p, MAX_FRAME_PERIOD) *
\* CENTERPIECE_ANGULAR_VELOCITY (modulo 2*PI: a negative angle is brought
\* back into the turn), at most MAX_FRAME_PERIOD *
\* CENTERPIECE_ANGULAR_VELOCITY.
C19_FramePeriodIsLimited ==
    [][ theLast'.op = "SimulationUpdate"
        => /\ md'.itsUserBodyAdvance - md.itsUserBodyAdvance
                = md.itsUserSpeed
                    * (IF theLast'.aFramePeriod < MAX_FRAME_PERIOD
                       THEN theLast'.aFramePeriod ELSE MAX_FRAME_PERIOD)
           /\ (md.itsRotationAngle - md'.itsRotationAngle) % TWO_PI
                = CENTERPIECE_ANGULAR_VELOCITY
                    * (IF theLast'.aFramePeriod < MAX_FRAME_PERIOD
                       THEN theLast'.aFramePeriod ELSE MAX_FRAME_PERIOD)
           /\ (md.itsRotationAngle - md'.itsRotationAngle) % TWO_PI
                <= MAX_FRAME_PERIOD * CENTERPIECE_ANGULAR_VELOCITY
           /\ md'.itsRotationAngle \in 0..TWO_PI ]_vars

\* After a stall of a quarter of a second the observer of the lens space
\* is 0.016 ahead and the centerpiece 0.01 radian back.
C19_Witness ==
    /\ theLast.op = "SimulationUpdate"
    /\ theLast.aFramePeriod = 250
    /\ md.itsSpaceType = "SpaceSpherical"
    /\ md.itsDirichletDomain.ptr # NULL
    /\ md.itsUserBodyAdvance = 8 * USER_SPEED_INCREMENT * MAX_FRAME_PERIOD
    /\ md.itsRotationAngle = TWO_PI - MAX_FRAME_PERIOD * CENTERPIECE_ANGULAR_VELOCITY

\* Expansion factors from -3 to 7, in hundredths.
WideExpansionFactors == -300..700

\* C20: itsAperture is between 0 and 1 in every state, a pinch by any
\* expansion factor leaves it there, and from every state one pinch can
\* close it to exactly 0 and one pinch can open it to exactly 1.
C20_ApertureInUnitInterval ==
    /\ md.itsAperture \in 0..1000
    /\ \A anExpansionFactor \in WideExpansionFactors :
          GesturePinch(md, anExpansionFactor).itsAperture \in 0..1000
    /\ \E anExpansionFactor \in WideExpansionFactors :
          GesturePinch(md, anExpansionFactor).itsAperture = 0
    /\ \E anExpansionFactor \in WideExpansionFactors :
          GesturePinch(md, anExpansionFactor).itsAperture = 1000

\* A pinch has shut the aperture and went beyond; the next one can open it
\* wide.
C20_Witness ==
    /\ theLast.op = "GesturePinch"
    /\ md.itsAperture = 0
    /\ md.itsChangeCount = 1
    /\ GesturePinch(md, 400).itsAperture = 1000

\* C30: in every state at most one of itsUserSpeed and itsPrePauseUserSpeed
\* is nonzero.
C30_OneSpeedAtMost ==
    md.itsUserSpeed = 0 \/ md.itsPrePauseUserSpeed = 0

\* C22: an operation that changes itsAperture, a GesturePinch or
\* SetShowColorCoding call, and a LoadGenerators call that replaces or
\* frees a Dirichlet domain (whether it succeeds or fails) returns with
\* itsDirichletWallsMeshNeedsRefresh true; an operation that changes the
\* Dirichlet domain returns with itsVertexFigureMeshNeedsReplacement true
\* as well.
C22_ChangedMeshesAreFlagged ==
    [][ /\ ( \/ theLast'.op \in { "GesturePinch", "SetShowColorCoding" }
             \/ md'.itsAperture # md.itsAperture )
           => md'.itsDirichletWallsMeshNeedsRefresh
        /\ ( \/ md'.itsDirichletDomain # md.itsDirichletDomain
             \/ /\ theLast'.op = "LoadGeneratorFile"
                /\ theLast'.entered
                /\ \/ md.itsDirichletDomain.ptr # NULL
                   \/ md'.itsDirichletDomain.ptr # NULL )
           => /\ md'.itsDirichletWallsMeshNeedsRefresh
              /\ md'.itsVertexFigureMeshNeedsReplacement ]_vars

\* The observer's position is within RESTORING_EPSILON of every face's
\* halfspace.
theObserverIsInTheDomain(aModelData) ==
    \A k \in 1..Len(aModelData.itsDirichletDomain.itsFaceList) :
        ~ ExceedsEps(
            FaceValueAhead(
                aModelData.itsDirichletDomain.F[aModelData.itsDirichletDomain.itsFaceList[k]],
                aModelData.itsUserBodyPlacement,
                aModelData.itsSpaceType,
                aModelData.itsUserBodyAdvance),
            RESTORING_EPSILON_DEN)

\* C29: whenever a Dirichlet domain is loaded, the observer's position
\* (the last row of itsUserBodyPlacement) satisfies every face's halfspace
\* inequality within RESTORING_EPSILON, after LoadGenerators and after
\* every SimulationUpdate, GestureRotate and MouseMoved call with a step
\* shorter than the cell.
C29_ObserverStaysInDomain ==
    md.itsDirichletDomain.ptr # NULL => theObserverIsInTheDomain(md)

\* aPlacement times the geometric inverses of the matrices of the faces at
\* the list positions in S, from position k on, in list order.
RECURSIVE TimesInversesOf(_, _, _, _)
TimesInversesOf(dd, aPlacement, S, k) ==
    IF k > Len(dd.itsFaceList) THEN aPlacement
    ELSE IF k \in S
        THEN TimesInversesOf(dd,
                MatrixProduct(aPlacement,
                    MatrixGeometricInverse(dd.F[dd.itsFaceList[k]].itsMatrix)),
                S, k + 1)
    ELSE TimesInversesOf(dd, aPlacement, S, k + 1)

\* C28: the placement after a StayInDirichletDomain call is the placement
\* before it multiplied on the right by the geometric inverses of the
\* matrices of some of the domain's faces, each taken at most once, in list
\* order; with a NULL domain, or with no face value above
\* RESTORING_EPSILON, the placement is returned as it was.
C28_StayMultipliesByInverseFaceMatrices ==
    (phase = "Success" /\ theStays >= 1) =>
        /\ call.dd.ptr = NULL =>
            /\ itsPlacement = theStay.before
            /\ theStay.mults = 0
        /\ call.dd.ptr # NULL =>
            /\ \E S \in SUBSET (1..Len(call.dd.itsFaceList)) :
                /\ Cardinality(S) = theStay.mults
                /\ itsPlacement = TimesInversesOf(call.dd, theStay.before, S, 1)
            /\ InsideDomain(call.dd, theStay.before) =>
                /\ itsPlacement = theStay.before
                /\ theStay.mults = 0

\* A placement two cells away, across two different faces, was brought back
\* into the domain by two multiplications of a single call.
C28_Witness ==
    /\ phase = "Success"
    /\ call.dd.ptr # NULL
    /\ theCrossings = 2
    /\ theStays = 1
    /\ theStay.mults = 2
    /\ itsPlacement # theStay.before
    /\ InsideDomain(call.dd, itsPlacement)

\* The tail of a half edge: the tip of its mate.
theTailOf(dd, h) == dd.H[dd.H[h].itsMate].itsTip

\* Every pointer of an element of the domain leads to an element that is
\* on the domain's lists.
NoDanglingPointer(dd) ==
    /\ ListsMatch(dd)
    /\ \A v \in DOMAIN dd.V : dd.V[v].itsOutboundHalfEdge \in DOMAIN dd.H
    /\ \A h \in DOMAIN dd.H :
        /\ dd.H[h].itsTip \in DOMAIN dd.V
        /\ dd.H[h].itsMate \in DOMAIN dd.H
        /\ dd.H[h].itsCycle \in DOMAIN dd.H
        /\ dd.H[h].itsFace \in DOMAIN dd.F
    /\ \A f \in DOMAIN dd.F : dd.F[f].itsHalfEdge \in DOMAIN dd.H

\* The half edges of each face are one closed cycle, begun at itsHalfEdge.
EveryFaceIsOneCycle(dd) ==
    \A f \in DOMAIN dd.F :
        /\ CycleCloses(dd.H, dd.F[f].itsHalfEdge)
        /\ Range(CycleFrom(dd.H, dd.F[f].itsHalfEdge, <<>>))
                = { h \in DOMAIN dd.H : dd.H[h].itsFace = f }
        /\ Len(CycleFrom(dd.H, dd.F[f].itsHalfEdge, <<>>))
                = Cardinality({ h \in DOMAIN dd.H : dd.H[h].itsFace = f })

HalfEdgesAreLinked(dd) ==
    /\ NoDanglingPointer(dd)
    /\ \A h \in DOMAIN dd.H :
        /\ dd.H[h].itsMate # h
        /\ dd.H[dd.H[h].itsMate].itsMate = h
        /\ dd.H[dd.H[h].itsCycle].itsFace = dd.H[h].itsFace
        /\ theTailOf(dd, dd.H[h].itsCycle) = dd.H[h].itsTip
    /\ EveryFaceIsOneCycle(dd)

\* C24: after MakeBanana, after MakeLens and after every
\* IntersectWithHalfspace call that returns success, every half edge is the
\* mate of its mate and not its own mate, its successor in the cycle is on
\* the same face and starts at its tip, the cycle from a face's itsHalfEdge
\* comes back after exactly the half edges of that face, and no pointer of
\* a vertex, half edge or face leads off the domain's lists.
C24_HalfEdgeStructure ==
    (phase \in { "Seeded", "Cutting" } /\ call.dd.ptr # NULL) =>
        HalfEdgesAreLinked(call.dd)

\* A cut of the main loop has removed vertices of a polyhedron with at
\* least six faces and left the structure linked.
C24_Witness ==
    /\ phase = "Cutting"
    /\ theLastCut.made
    /\ theIndex > 1
    /\ NumFaces(theLastCut.before) >= 5
    /\ DOMAIN theLastCut.before.V \ DOMAIN call.dd.V # {}
    /\ NumFaces(call.dd) >= 6
    /\ HalfEdgesAreLinked(call.dd)

\* C25: after every IntersectWithHalfspace call that returns success every
\* vertex on the list has an itsOutboundHalfEdge that is on the half-edge
\* list (the cut did not delete it) and starts at the vertex; the loop that
\* looks for it comes to an end (no call is left hanging).
C25_OutboundHalfEdgeSurvives ==
    /\ phase # "Hung"
    /\ (phase = "Cutting" /\ theLastCut.made) =>
        \A v \in DOMAIN call.dd.V :
            /\ call.dd.V[v].itsOutboundHalfEdge \in DOMAIN call.dd.H
            /\ theTailOf(call.dd, call.dd.V[v].itsOutboundHalfEdge) = v

\* A surviving vertex of the polyhedron before the cut had an outbound half
\* edge that the cut deleted, and has another after it.
C25_Witness ==
    /\ phase = "Cutting"
    /\ theLastCut.made
    /\ \E v \in DOMAIN call.dd.V \cap DOMAIN theLastCut.before.V :
        /\ theLastCut.before.V[v].itsOutboundHalfEdge \notin DOMAIN call.dd.H
        /\ call.dd.V[v].itsOutboundHalfEdge \in DOMAIN call.dd.H
        /\ theTailOf(call.dd, call.dd.V[v].itsOutboundHalfEdge) = v

\* A vertex record without its temporary itsHalfspaceStatus.
WithoutStatus(V) ==
    [ v \in DOMAIN V |-> [ V[v] EXCEPT !.itsHalfspaceStatus = "Undefined" ] ]

\* The same lists, links, matrices and halfspaces.
SameButStatus(dd1, dd2) ==
    /\ [ dd1 EXCEPT !.V = EmptyMap ] = [ dd2 EXCEPT !.V = EmptyMap ]
    /\ WithoutStatus(dd1.V) = WithoutStatus(dd2.V)

\* The vertices of dd that lie strictly outside the halfspace of aMatrix.
theOutsideVertices(dd, aMatrix) ==
    { v \in DOMAIN dd.V :
        VertexStatus(MakeHalfspaceInequality(aMatrix), dd.V[v].itsRawPosition)
            = "VertexOutsideHalfspace" }

\* C26: an IntersectWithHalfspace call with the identity matrix, or with a
\* matrix whose halfspace leaves no vertex strictly outside, returns
\* success and leaves the lists and all links, matrices and halfspaces as
\* they were (itsHalfspaceStatus apart); after any successful call, the
\* same cut made again is such a call.
C26_TrivialCutIsNoOp ==
    (phase = "Cutting" /\ theLastCut.made) =>
        /\ ( \/ MatrixIsIdentity(theLastCut.matrix)
             \/ theOutsideVertices(theLastCut.before, theLastCut.matrix) = {} )
           => SameButStatus(call.dd, theLastCut.before)
        /\ theOutsideVertices(call.dd, theLastCut.matrix) = {}
        /\ IntersectWithHalfspace(call, theLastCut.matrix).err = NoError
        /\ ~ IntersectWithHalfspace(call, theLastCut.matrix).hang
        /\ SameButStatus(IntersectWithHalfspace(call, theLastCut.matrix).dd, call.dd)

\* The main loop came again to a matrix whose halfspace already bounds
\* the polyhedron, and the call left the polyhedron as it was.
C26_Witness ==
    /\ phase = "Cutting"
    /\ theLastCut.made
    /\ ~ MatrixIsIdentity(theLastCut.matrix)
    /\ \E f \in DOMAIN theLastCut.before.F :
            theLastCut.before.F[f].itsMatrix = theLastCut.matrix
    /\ theOutsideVertices(theLastCut.before, theLastCut.matrix) = {}
    /\ NumFaces(call.dd) >= 4
    /\ SameButStatus(call.dd, theLastCut.before)
    /\ call.dd # theLastCut.before

\* The half edges of the split polyhedron with an outside vertex at an end.
theOutsideHalfEdges(dd, aMatrix) ==
    { h \in DOMAIN dd.H :
        \/ dd.H[h].itsTip \in theOutsideVertices(dd, aMatrix)
        \/ theTailOf(dd, h) \in theOutsideVertices(dd, aMatrix) }

theOutsideFaces(dd, aMatrix) ==
    { dd.H[h].itsFace : h \in theOutsideHalfEdges(dd, aMatrix) }

\* C27: an IntersectWithHalfspace call in which a vertex is classified
\* outside adds exactly one face; the face carries the cutting matrix and
\* its halfspace and its half edges join vertices on the boundary; of the
\* polyhedron as the cutting loops split it the call removes the vertices
\* outside, the half edges with such a vertex at an end and the faces of
\* those half edges, and nothing else.
C27_CutAddsOneFaceAndRemovesOutside ==
    ( /\ phase = "Cutting"
      /\ theLastCut.made
      /\ ~ MatrixIsIdentity(theLastCut.matrix)
      /\ theOutsideVertices(theLastCut.before, theLastCut.matrix) # {} )
    => /\ DOMAIN call.dd.V
            = DOMAIN theLastCut.split.V
                \ theOutsideVertices(theLastCut.split, theLastCut.matrix)
       /\ theOutsideVertices(theLastCut.split, theLastCut.matrix)
            = theOutsideVertices(theLastCut.before, theLastCut.matrix)
       /\ DOMAIN call.dd.H
            = DOMAIN theLastCut.split.H
                \ theOutsideHalfEdges(theLastCut.split, theLastCut.matrix)
       /\ \E theNewFace \in DOMAIN call.dd.F \ DOMAIN theLastCut.split.F :
            /\ DOMAIN call.dd.F
                = (DOMAIN theLastCut.split.F
                    \ theOutsideFaces(theLastCut.split, theLastCut.matrix))
                  \cup { theNewFace }
            /\ DOMAIN call.dd.F \ DOMAIN theLastCut.before.F = { theNewFace }
            /\ call.dd.F[theNewFace].itsMatrix = theLastCut.matrix
            /\ call.dd.F[theNewFace].itsHalfspace
                = MakeHalfspaceInequality(theLastCut.matrix)
            /\ call.dd.H[call.dd.F[theNewFace].itsHalfEdge].itsFace = theNewFace
            /\ \A h \in DOMAIN call.dd.H :
                call.dd.H[h].itsFace = theNewFace
                => /\ VertexStatus(MakeHalfspaceInequality(theLastCut.matrix),
                            call.dd.V[call.dd.H[h].itsTip].itsRawPosition)
                        = "VertexOnBoundary"
                   /\ VertexStatus(MakeHalfspaceInequality(theLastCut.matrix),
                            call.dd.V[theTailOf(call.dd, h)].itsRawPosition)
                        = "VertexOnBoundary"

\* A cut of the main loop split edges and faces, took away a vertex, half
\* edges and a face of the polyhedron and closed it with one new face of at
\* least four sides.
C27_Witness ==
    /\ phase = "Cutting"
    /\ theLastCut.made
    /\ theIndex > 1
    /\ theOutsideVertices(theLastCut.before, theLastCut.matrix) # {}
    /\ DOMAIN theLastCut.split.V \ DOMAIN theLastCut.before.V # {}
    /\ DOMAIN theLastCut.split.F \ DOMAIN theLastCut.before.F # {}
    /\ DOMAIN theLastCut.before.F \ DOMAIN call.dd.F # {}
    /\ \E theNewFace \in DOMAIN call.dd.F \ DOMAIN theLastCut.before.F :
        /\ call.dd.F[theNewFace].itsMatrix = theLastCut.matrix
        /\ Cardinality({ h \in DOMAIN call.dd.H :
                            call.dd.H[h].itsFace = theNewFace }) >= 4

(***************************************************************************)
(* The meshes of the finished domain                                       *)
(***************************************************************************)
\* A mesh whose arrays received as many entries as were counted, and whose
\* facets name only vertices of the mesh.
theMeshIsFilled(aMesh) ==
    /\ aMesh.thePositions = aMesh.aNumMeshVertices
    /\ aMesh.theTexCoords = aMesh.aNumMeshVertices
    /\ aMesh.theColors = aMesh.aNumMeshVertices
    /\ Len(aMesh.someMeshFacets) = aMesh.aNumMeshFacets
    /\ \A j \in DOMAIN aMesh.someMeshFacets :
          \A k \in 1..3 :
              /\ aMesh.someMeshFacets[j][k] >= 0
              /\ aMesh.someMeshFacets[j][k] < aMesh.aNumMeshVertices

\* C21: for a domain with H half edges MakeDirichletMesh returns 4*H
\* vertices and 2*H facets and MakeVertexFigureMesh 8*H vertices and 4*H
\* facets; the position, texture coordinate, color and facet arrays receive
\* exactly as many entries as were counted (the closing assertions hold),
\* and every facet index is smaller than the vertex count.
C21_MeshCounts ==
    /\ theMesh.walls.made =>
          /\ theMesh.walls.aNumMeshVertices = 4 * NumHalfEdges(call.dd)
          /\ theMesh.walls.aNumMeshFacets = 2 * NumHalfEdges(call.dd)
          /\ theMeshIsFilled(theMesh.walls)
    /\ theMesh.figures.made =>
          /\ theMesh.figures.aNumMeshVertices = 8 * NumHalfEdges(call.dd)
          /\ theMesh.figures.aNumMeshFacets = 4 * NumHalfEdges(call.dd)
          /\ theMeshIsFilled(theMesh.figures)

\* Both meshes of a cube were made: 24 half edges, 96 and 192 vertices.
C21_Witness ==
    /\ theMesh.walls.made
    /\ theMesh.figures.made
    /\ NumHalfEdges(call.dd) = 24
    /\ theMesh.walls.aNumMeshVertices = 96
    /\ Len(theMesh.walls.someMeshFacets) = 48
    /\ theMesh.figures.aNumMeshVertices = 192
    /\ Len(theMesh.figures.someMeshFacets) = 96

(***************************************************************************)
(* Renormalization                                                         *)
(***************************************************************************)
\* 1e-6
Tolerance == FixedOne \div 1000000

IsGeometry(aSpaceType) ==
    aSpaceType \in { "SpaceSpherical", "SpaceFlat", "SpaceHyperbolic" }

\* The inner product of the rows i >= j, in the metric FastGramSchmidt
\* takes for the pair (that of row i), less what it is for a matrix in round.
theGramError(aMatrix, aSpaceType, i, j) ==
    theMetricInnerProduct(theMetricOfRow(aSpaceType, i), aMatrix[i], aMatrix[j])
      - (IF i = j THEN FixedOne ELSE 0)

IsOrthonormalWithin(aMatrix, aSpaceType, aTolerance) ==
    \A i \in 1..4 : \A j \in 1..i :
        /\ theGramError(aMatrix, aSpaceType, i, j) <= aTolerance
        /\ theGramError(aMatrix, aSpaceType, i, j) >= - aTolerance

IsSameWithin(a, b, aTolerance) ==
    \A i \in 1..4 : \A j \in 1..4 :
        /\ a[i][j] - b[i][j] <= aTolerance
        /\ b[i][j] - a[i][j] <= aTolerance

\* C23: FastGramSchmidt applied once to a placement that noise of norm below
\* 1e-3 has forced out of round leaves rows orthonormal in the metric of the
\* geometry to within 1e-6, and applied a second time changes the matrix no
\* further (by no more than 1e-6 in any entry); a matrix in round is left as
\* it is, and so is any matrix when the space type is SpaceNone.
C23_RenormalizationConverges ==
    /\ (IsGeometry(theRenorm.aSpaceType) /\ theRenorm.theApplications >= 1) =>
          IsOrthonormalWithin(theRenorm.aMatrix, theRenorm.aSpaceType, Tolerance)
    /\ (IsGeometry(theRenorm.aSpaceType) /\ theRenorm.theApplications = 2) =>
          IsSameWithin(theRenorm.aMatrix, theRenorm.theBefore, Tolerance)
    /\ (theRenorm.thePerturbed = theRenorm.thePlacement) =>
          theRenorm.aMatrix = theRenorm.thePlacement
    /\ (theRenorm.aSpaceType = "SpaceNone") =>
          theRenorm.aMatrix = theRenorm.thePerturbed

====
